---- MODULE Spec2Model ----
(***************************************************************************)
(* A model of pysimsearch: the dict-backed leaf index (MapSimIndex), the   *)
(* scorers, the sharded SimIndexCollection and the ConcurrentSimIndex      *)
(* envelope.  Python dicts are functions with a finite domain, lists are   *)
(* sequences, None is the empty sequence <<>> and a present optional value *)
(* v is <<v>>.                                                             *)
(***************************************************************************)
EXTENDS Integers, Sequences, FiniteSets, TLC

VARIABLES leaf, last, snap, node, ref, clast, thread, envelope, hist, output

vars == <<leaf, last, snap, node, ref, clast, thread, envelope, hist, output>>

(***************************************************************************)
(* Bounds of the model and the inputs the calls are drawn from.            *)
(***************************************************************************)
\* docids a leaf may hand out: index_* is disabled once _next_docid reaches it
MaxDocid == 3
\* longest argument list of one index_files / del_docids call
MaxBatch == 2
\* most shards one collection is given
MaxShards == 2

\* documents ever written through a collection
MaxCollDocs == 2
\* index_urls calls ever submitted to the worker pool of an envelope
MaxFutures == 2

Names == {"d1", "d2"}

Tokens == {"hello", "Hello", "world", "stop"}

\* document bodies: the whitespace-separated tokens of a file, in order
\* pages and buffers written through a collection
CollBodies == { <<"hello", "world", "hello">>, <<"Hello", "stop">> }

Bodies == { <<"hello", "world", "hello">>,
            <<"Hello", "stop">>,
            <<"stop">> }

Stoplists == { {}, {"stop"} }

Scorers == {"simple_count", "tfidf"}

(***************************************************************************)
(* dict helpers                                                            *)
(***************************************************************************)
EmptyMap == [k \in {} |-> 0]

Put(f, k, v) == [x \in (DOMAIN f) \cup {k} |-> IF x = k THEN v ELSE f[x]]

Remove(f, k) == [x \in (DOMAIN f) \ {k} |-> f[x]]

Get(f, k, default) == IF k \in DOMAIN f THEN f[k] ELSE default

Range(f) == {f[x] : x \in DOMAIN f}

RECURSIVE SumOver(_, _)
SumOver(f, S) ==
    IF S = {} THEN 0
    ELSE LET x == CHOOSE y \in S : TRUE IN f[x] + SumOver(f, S \ {x})

\* sorted(S) for a set of integers
RECURSIVE Sorted(_)
Sorted(S) ==
    IF S = {} THEN <<>>
    ELSE LET m == CHOOSE x \in S : \A y \in S : x <= y
         IN <<m>> \o Sorted(S \ {m})

\* the multiset of the values of a dict: value -> number of keys holding it
AsBag(f) == [p \in Range(f) |-> Cardinality({d \in DOMAIN f : f[d] = p})]

(***************************************************************************)
(* term_vec.py                                                             *)
(***************************************************************************)
\* unicode.lower() on the tokens of the model
Lower(term) == IF term = "Hello" THEN "hello" ELSE term

\* term_vec(file, stoplist, lowercase): the else-branch, one pass over the
\* tokens; the stoplist is consulted before the token is lowercased
RECURSIVE TermVecFile(_, _, _, _)
TermVecFile(tokens, stoplist, lowercase, tf_dict) ==
    IF tokens = <<>> THEN tf_dict
    ELSE LET raw  == Head(tokens)
             term == IF lowercase THEN Lower(raw) ELSE raw
             next == IF raw \in stoplist THEN tf_dict
                     ELSE Put(tf_dict, term, Get(tf_dict, term, 0) + 1)
         IN TermVecFile(Tail(tokens), stoplist, lowercase, next)

\* term_vec(input, stoplist, lowercase) for a file object
TermVec(file, stoplist, lowercase) ==
    TermVecFile(file, stoplist, lowercase, EmptyMap)

\* term_vec(input, ...) for a string: recurses on a StringIO with the
\* default arguments (stoplist=None, lowercase=False)
TermVecString(input, stoplist, lowercase) ==
    TermVec(input, {}, FALSE)

L2NormLinear(v) == [sqrt |-> SumOver([t \in DOMAIN v |-> v[t]], DOMAIN v)]

\* l2_norm(v) = sqrt(sum of squares); kept as the radicand, [sqrt |-> n]
L2Norm(v) == [sqrt |-> SumOver([t \in DOMAIN v |-> v[t] * v[t]], DOMAIN v)]

(***************************************************************************)
(* query_scorer.py.  A score is kept as the expression the scorer          *)
(* evaluates: simple_count scores are integers; a tfidf score is the set   *)
(* of its non-zero term hits <<term, tf(q) * tf(d), n, d>> (each standing  *)
(* for tf(q) * tf(d) * ln(n / d), n / d the true quotient N / df in lowest *)
(* terms; ln(1) = 0 makes a hit zero) over the document length.  Equal     *)
(* expressions evaluate to equal floats.                                   *)
(***************************************************************************)
SimpleCountWeighted(query_vec, postings_lists) ==
    LET docids == UNION { {pl[i][1] : i \in DOMAIN pl} : pl \in Range(postings_lists) }
        hit(d) == SumOver(
            [t \in DOMAIN postings_lists |->
                LET pl == postings_lists[t]
                IN SumOver([i \in DOMAIN pl |->
                              IF pl[i][1] = d THEN query_vec[t] * pl[i][2] ELSE 0],
                           DOMAIN pl)],
            DOMAIN postings_lists)
    IN [outcome |-> "ok", hits |-> [d \in docids |-> hit(d)]]

\* SimpleCountQueryScorer.score_docs: doc_hit_map[docid] += freq
SimpleCountScoreDocs(query_vec, postings_lists) ==
    LET docids == UNION { {pl[i][1] : i \in DOMAIN pl} : pl \in Range(postings_lists) }
        hit(d) == SumOver(
            [t \in DOMAIN postings_lists |->
                LET pl == postings_lists[t]
                IN SumOver([i \in DOMAIN pl |-> IF pl[i][1] = d THEN pl[i][2] ELSE 0],
                           DOMAIN pl)],
            DOMAIN postings_lists)
    IN [outcome |-> "ok", hits |-> [d \in docids |-> hit(d)]]

\* TFIDFQueryScorer.tf_weight_raw
TfWeightRaw(tf) == tf

RECURSIVE Gcd(_, _)
Gcd(a, b) == IF b = 0 THEN a ELSE Gcd(b, a % b)

\* TFIDFQueryScorer.idf_weight_log for df > 0: the argument of log, the true
\* quotient N / df, in lowest terms
IdfWeightLog(N, df) == <<N \div Gcd(N, df), df \div Gcd(N, df)>>

EmptyCorpusNever(N) == FALSE

\* TFIDFQueryScorer.score_docs, first line: if N == 0
EmptyCorpus(N) == N = 0

\* TFIDFQueryScorer.score_docs with raw tf; doc_freq and doc_len are the
\* get_doc_freq / get_doc_len callbacks as dicts over the terms / docids asked
TFIDFScoreDocs(query_vec, postings_lists, N, doc_freq, doc_len) ==
    LET docids == UNION { {pl[i][1] : i \in DOMAIN pl} : pl \in Range(postings_lists) }
        hitsOf(d) == UNION {
            LET pl == postings_lists[t]
                idf == IdfWeightLog(N, doc_freq[t])
            IN { <<t, TfWeightRaw(pl[i][2]) * TfWeightRaw(query_vec[t]), idf[1], idf[2]>> :
                 i \in {j \in DOMAIN pl : pl[j][1] = d /\ idf # <<1, 1>>} } :
            t \in DOMAIN postings_lists }
    IN  IF EmptyCorpus(N) THEN [outcome |-> "ok", hits |-> EmptyMap]
        \* idf_weight_log: assert(df > 0) for every term of the query
        ELSE IF \E t \in DOMAIN postings_lists : doc_freq[t] <= 0
             THEN [outcome |-> "AssertionError", hits |-> EmptyMap]
        ELSE IF \E d \in docids : doc_len[d].sqrt = 0
             THEN [outcome |-> "ZeroDivisionError", hits |-> EmptyMap]
        ELSE [outcome |-> "ok",
              hits |-> [d \in docids |-> [sum |-> hitsOf(d), over |-> doc_len[d]]]]

(***************************************************************************)
(* sim_index.py / map_sim_index.py / memory_sim_index.py: the leaf index.  *)
(***************************************************************************)
\* no stream is open
NoFile == <<>>

\* SimIndex.__init__ + MapSimIndex.__init__ + MemorySimIndex.__init__
NewLeaf ==
    [ kind              |-> "leaf",
      name_to_docid_map |-> EmptyMap,
      docid_to_name_map |-> EmptyMap,
      term_index        |-> EmptyMap,
      doc_vectors       |-> EmptyMap,
      df_map            |-> EmptyMap,
      doc_len_map       |-> EmptyMap,
      N                 |-> 0,
      next_docid        |-> 0,
      global_N          |-> <<>>,
      global_df_map     |-> <<>>,
      config            |-> [lowercase |-> TRUE, stoplist |-> {}],
      query_scorer      |-> "tfidf" ]

\* SimIndex.config: self._config[key]
Config(L, key) ==
    IF key \in DOMAIN L.config THEN [outcome |-> "ok", value |-> <<L.config[key]>>]
    ELSE [outcome |-> "KeyError", value |-> <<>>]

\* SimIndex.set_config: self._config[key] = value
LeafSetConfigOp(L, key, value) ==
    [L EXCEPT !.config = Put(@, key, value)]

\* the stoplist that SimIndex.load_stoplist builds from the lines of stopfile
StoplistOf(stopfile) == UNION {Range(stopfile[i]) : i \in DOMAIN stopfile}

\* SimIndex.update_config: dict.update on the configuration
UpdateConfig(config, d) ==
    [k \in (DOMAIN config) \cup (DOMAIN d) |-> IF k \in DOMAIN d THEN d[k] ELSE config[k]]

\* SimIndex.set_query_scorer with a scorer name
LeafSetQueryScorer(L, scorer) == [L EXCEPT !.query_scorer = scorer]

\* SimIndex.set_global_N
LeafSetGlobalN(L, n) == [L EXCEPT !.global_N = <<n>>]

\* MapSimIndex.set_global_df_map
LeafSetGlobalDfMap(L, df_map) == [L EXCEPT !.global_df_map = <<df_map>>]

\* MapSimIndex.postings_list
PostingsList(L, term) ==
    LET t == IF L.config.lowercase THEN Lower(term) ELSE term
    IN Get(L.term_index, t, <<>>)

PostingsListFabricates(L, term) ==
    LET t == IF L.config.lowercase THEN Lower(term) ELSE term
    IN [idx |-> [L EXCEPT !.term_index = IF t \in DOMAIN @ THEN @ ELSE Put(@, t, <<>>)],
        result |-> Get(L.term_index, t, <<>>)]

\* a call of MapSimIndex.postings_list: the index after the call and the
\* list returned; self._term_index.get(term, []) stores nothing
PostingsListCall(L, term) == [idx |-> L, result |-> PostingsList(L, term)]

AddVecOverwrite(L, docid, t_vec) ==
    [t \in (DOMAIN L.term_index) \cup (DOMAIN t_vec) |->
        IF t \in DOMAIN t_vec THEN << <<docid, t_vec[t]>> >> ELSE L.term_index[t]]

\* MapSimIndex._add_vec: one assignment per term of the vector, each reading
\* postings_list(term)
AddVec(L, docid, t_vec) ==
    [t \in (DOMAIN L.term_index) \cup (DOMAIN t_vec) |->
        IF t \in DOMAIN t_vec
        THEN Append(PostingsList(L, t), <<docid, t_vec[t]>>)
        ELSE L.term_index[t]]

LowestFreeDocid(L) ==
    CHOOSE d \in 0..MaxDocid :
       /\ d \notin DOMAIN L.doc_vectors
       /\ \A e \in 0..(d - 1) : e \in DOMAIN L.doc_vectors

\* MapSimIndex.index_files: docid = self._next_docid
NextDocid(L) == L.next_docid

\* one iteration of the loop of MapSimIndex.index_files
IndexFile(L, name, file) ==
    LET t_vec == TermVec(file, L.config.stoplist, L.config.lowercase)
        docid == NextDocid(L)
    IN [L EXCEPT
          !.name_to_docid_map = Put(@, name, docid),
          !.docid_to_name_map = Put(@, docid, name),
          !.df_map = [t \in (DOMAIN @) \cup (DOMAIN t_vec) |->
                        IF t \in DOMAIN t_vec THEN Get(@, t, 0) + 1 ELSE @[t]],
          !.term_index = AddVec(L, docid, t_vec),
          !.doc_len_map = Put(@, docid, L2Norm(t_vec)),
          !.doc_vectors = Put(@, docid, t_vec),
          !.N = @ + 1,
          !.next_docid = @ + 1]

\* MapSimIndex.index_files over a list of (name, file) pairs
RECURSIVE IndexFiles(_, _)
IndexFiles(L, named_files) ==
    IF named_files = <<>> THEN L
    ELSE IndexFiles(IndexFile(L, Head(named_files)[1], Head(named_files)[2]),
                    Tail(named_files))

\* SimIndex.index_string_buffers: wraps each buffer in a StringIO and calls
\* index_files
IndexStringBuffers(L, named_string_buffers) == IndexFiles(L, named_string_buffers)

\* _del_helper of MapSimIndex.del_docids: del map[key], a missing key ignored
DelHelperKeep(map, key) == map

DelHelper(map, key) == Remove(map, key)

\* "decr df count" for the terms of the deleted vector
DecrDfNone(df_map, vec) == df_map

DecrDf(df_map, vec) ==
    [t \in DOMAIN df_map |-> IF t \in DOMAIN vec THEN df_map[t] - 1 ELSE df_map[t]]

\* the body of the docid loop of MapSimIndex.del_docids; the result is the
\* index and how the iteration ended
DelDocid(L, docid) ==
    IF docid \notin DOMAIN L.doc_vectors
    THEN [idx |-> L, outcome |-> "KeyError"]
    ELSE
      LET vec == L.doc_vectors[docid]
          filtered(t) == SelectSeq(Get(L.term_index, t, <<>>),
                                   LAMBDA p : p[1] # docid)
          afterTerms ==
            [L EXCEPT
               !.df_map = DecrDf(@, vec),
               !.term_index =
                  [t \in ((DOMAIN @) \ {u \in DOMAIN vec : filtered(u) = <<>>}) |->
                      IF t \in DOMAIN vec THEN filtered(t) ELSE @[t]]]
      IN IF \E t \in DOMAIN vec : t \notin DOMAIN L.df_map
         THEN [idx |-> L, outcome |-> "KeyError"]
         ELSE IF docid \notin DOMAIN L.docid_to_name_map
         THEN [idx |-> afterTerms, outcome |-> "KeyError"]
         ELSE
           LET name == L.docid_to_name_map[docid]
           IN [idx |-> [afterTerms EXCEPT
                          !.docid_to_name_map = DelHelper(@, docid),
                          !.name_to_docid_map = DelHelper(@, name),
                          !.doc_len_map = DelHelper(@, docid),
                          !.doc_vectors = DelHelper(@, docid),
                          !.N = @ - 1],
               outcome |-> "ok"]

\* MapSimIndex.del_docids(*docids): stops at the first docid that raises
RECURSIVE DelDocids(_, _)
DelDocids(L, docids) ==
    IF docids = <<>> THEN [idx |-> L, outcome |-> "ok"]
    ELSE LET r == DelDocid(L, Head(docids))
         IN IF r.outcome # "ok" THEN r ELSE DelDocids(r.idx, Tail(docids))

\* MapSimIndex.get_doc_freq
GetDocFreq(L, term) ==
    LET df_map == IF L.global_df_map # <<>> /\ DOMAIN L.global_df_map[1] # {}
                  THEN L.global_df_map[1] ELSE L.df_map
    IN Get(df_map, term, 1)

\* MapSimIndex.get_doc_len
GetDocLen(L, docid) == Get(L.doc_len_map, docid, [sqrt |-> 0])

\* SimIndex.docids_with_terms on a leaf: terms is a list
DocidsWithTerms(L, terms) ==
    IF terms = <<>> THEN <<>>
    ELSE Sorted({d \in {PostingsList(L, terms[1])[i][1] :
                            i \in DOMAIN PostingsList(L, terms[1])} :
                   \A k \in DOMAIN terms :
                      \E i \in DOMAIN PostingsList(L, terms[k]) :
                         PostingsList(L, terms[k])[i][1] = d})

\* SimIndex.docnames_with_terms on a leaf, consumed to a list
DocnamesWithTerms(L, terms) ==
    LET ts == IF L.config.lowercase THEN [k \in DOMAIN terms |-> Lower(terms[k])]
              ELSE terms
        docids == DocidsWithTerms(L, ts)
    IN IF \E k \in DOMAIN docids : docids[k] \notin DOMAIN L.docid_to_name_map
       THEN [outcome |-> "KeyError", names |-> <<>>]
       ELSE [outcome |-> "ok",
             names |-> [k \in DOMAIN docids |-> L.docid_to_name_map[docids[k]]]]

\* MapSimIndex._query, consumed: the hits as a dict docid -> <<name, score>>
LeafQueryVec(L, query_vec) ==
    LET postings_lists == [t \in DOMAIN query_vec |-> PostingsList(L, t)]
        N == IF L.global_N # <<>> /\ L.global_N[1] # 0 THEN L.global_N[1] ELSE L.N
        docids == UNION { {pl[i][1] : i \in DOMAIN pl} : pl \in Range(postings_lists) }
        scored ==
          \* self.query_scorer.score_docs on None
          IF L.query_scorer = "None"
          THEN [outcome |-> "AttributeError", hits |-> EmptyMap]
          ELSE IF L.query_scorer = "simple_count"
          THEN SimpleCountScoreDocs(query_vec, postings_lists)
          ELSE TFIDFScoreDocs(query_vec, postings_lists, N,
                              [t \in DOMAIN query_vec |-> GetDocFreq(L, t)],
                              [d \in docids |-> GetDocLen(L, d)])
    IN IF scored.outcome # "ok" THEN [outcome |-> scored.outcome, hits |-> EmptyMap]
       ELSE IF \E d \in DOMAIN scored.hits : d \notin DOMAIN L.docid_to_name_map
       THEN [outcome |-> "KeyError", hits |-> EmptyMap]
       ELSE [outcome |-> "ok",
             hits |-> [d \in DOMAIN scored.hits |->
                         <<L.docid_to_name_map[d], scored.hits[d]>>]]

\* SimIndex.query with a string q
LeafQuery(L, q) ==
    LeafQueryVec(L, TermVecString(q, L.config.stoplist, L.config.lowercase))

\* MapSimIndex.name_to_docid
NameToDocid(L, name) ==
    IF name \in DOMAIN L.name_to_docid_map
    THEN [outcome |-> "ok", docid |-> L.name_to_docid_map[name]]
    ELSE [outcome |-> "KeyError", docid |-> 0]

\* MapSimIndex.docid_to_name
DocidToName(L, docid) ==
    IF docid \in DOMAIN L.docid_to_name_map
    THEN [outcome |-> "ok", name |-> L.docid_to_name_map[docid]]
    ELSE [outcome |-> "KeyError", name |-> ""]

\* the attributes of a MemorySimIndex instance
Attributes ==
    <<"kind", "name_to_docid_map", "docid_to_name_map", "term_index", "doc_vectors",
      "df_map", "doc_len_map", "N", "next_docid", "global_N", "global_df_map",
      "config", "query_scorer">>

\* pickle.dump(self, file): the stream holds the instance attribute by
\* attribute, each name followed by its value
PickleDump(L) == [i \in DOMAIN Attributes |-> <<Attributes[i], L[Attributes[i]]>>]

\* pickle.load(file): the instance rebuilt from the (name, value) pairs
PickleLoad(stream) ==
    [a \in {stream[i][1] : i \in DOMAIN stream} |->
        stream[CHOOSE i \in DOMAIN stream : stream[i][1] = a][2]]

SaveNoRestore(L) ==
    LET cleared == [L EXCEPT !.query_scorer = "None"]
    IN [idx |-> cleared, file |-> PickleDump(cleared)]

\* MemorySimIndex.save: the scorer is set aside (None) for the dump and put
\* back; the result is the index after the call and what the file holds
Save(L) ==
    LET qs == L.query_scorer
        cleared == [L EXCEPT !.query_scorer = "None"]
    IN [idx |-> [cleared EXCEPT !.query_scorer = qs], file |-> PickleDump(cleared)]

\* MemorySimIndex.load
Load(stream) == PickleLoad(stream)

(***************************************************************************)
(* concurrent_sim_index.py: the envelope around one wrapped index.  The    *)
(* envelope holds the RLock (its owner, None as <<>>, and its recursion    *)
(* count), the set self._futures and the state of every future the pool    *)
(* was given: "none" (not submitted), "pending", "index_files" (the        *)
(* wrapped index's index_urls is inside index_files), "done" or "raised".  *)
(***************************************************************************)
Threads == {"t1", "t2"}

Futures == 1..MaxFutures

READ_METHODS == {"name_to_docid", "docid_to_name", "postings_list",
                 "docids_with_terms", "docnames_with_terms", "query",
                 "get_local_N", "get_local_df_map", "get_name_to_docid_map",
                 "config"}

WRITE_METHODS == {"set_query_scorer", "set_global_N", "set_global_df_map",
                  "load_stoplist", "set_config", "update_config",
                  "index_string_buffers", "index_files", "del_docids"}

NONBLOCKING_METHODS == {"index_urls"}

\* ConcurrentSimIndex.__init__
NewEnvelope ==
    [ lock    |-> [owner |-> <<>>, count |-> 0],
      futures |-> {},
      task    |-> [f \in Futures |-> "none"] ]

\* a client thread between two calls; outcome is how its last call ended and
\* future the future its index_urls wrapper has submitted and not yet added
IdleThread == [pc |-> "idle", outcome |-> "ok", future |-> <<>>]

IdleThreads == [t \in Threads |-> IdleThread]

\* what the calls in progress were owed when they were invoked, kept for the
\* claims only: for the READ call of thread t, awaited[t] is the futures
\* whose index_urls call had returned and errors[t] those of them that had
\* failed with an exception no caller had been given; reported is the futures
\* whose exception _futures_wait has raised to some caller
NoHist ==
    [ awaited  |-> [t \in Threads |-> {}],
      errors   |-> [t \in Threads |-> {}],
      reported |-> {},
      assigned |-> <<>> ]

RLockFreeAlways(lock, t) == TRUE

\* threading.RLock.acquire does not block thread t
RLockFree(lock, t) == lock.owner = <<>> \/ lock.owner = <<t>>

\* threading.RLock.acquire by thread t, once it does not block
RLockAcquire(lock, t) == [owner |-> <<t>>, count |-> lock.count + 1]

RLockKeep(lock) == lock

\* threading.RLock.release by its owner
RLockRelease(lock) ==
    IF lock.count = 1 THEN [owner |-> <<>>, count |-> 0]
    ELSE [lock EXCEPT !.count = @ - 1]

(***************************************************************************)
(* The leaf on its own: a caller that keeps the documented preconditions   *)
(* of index_* (every name is fresh) and calls del_docids with any docids.  *)
(***************************************************************************)
\* the docids of a postings list
PostingDocids(pl) == {pl[i][1] : i \in DOMAIN pl}

\* the documents the leaf holds
LiveDocids(L) == DOMAIN L.doc_vectors

\* argument lists of 1..MaxBatch elements of S
RECURSIVE SeqsUpTo(_, _)
SeqsUpTo(S, n) ==
    IF n = 0 THEN {<<>>}
    ELSE LET shorter == SeqsUpTo(S, n - 1)
         IN shorter \cup {Append(q, x) : q \in {r \in shorter : Len(r) = n - 1}, x \in S}

ArgLists(S) == SeqsUpTo(S, MaxBatch) \ {<<>>}

NoSnap == [phase |-> "none", pre |-> <<>>, name |-> ""]

\* the last call: its name, how it ended, the docids given to del_docids,
\* the docids that were live when it started, whether it left the index
\* as it was, and the term given to postings_list
NoCall == [op |-> "init", outcome |-> "ok", docids |-> <<>>, live |-> {},
           unchanged |-> TRUE, term |-> ""]

\* batches of (name, buffer) pairs whose names are pairwise distinct and not
\* in the index
FreshBatches(L) ==
    {b \in ArgLists((Names \ DOMAIN L.name_to_docid_map) \X Bodies) :
        /\ \A i, j \in DOMAIN b : i # j => b[i][1] # b[j][1]
        /\ L.next_docid + Len(b) <= MaxDocid}

LeafInit ==
    /\ leaf = NewLeaf
    /\ last = NoCall
    /\ snap = NoSnap
    /\ node = EmptyMap
    /\ ref = NewLeaf
    /\ clast = [op |-> "init", target |-> "R", outcome |-> "ok"]
    /\ thread = IdleThreads
    /\ envelope = NewEnvelope
    /\ hist = NoHist
    /\ output = NoFile

\* hist.assigned lists, in the order of the calls and of the documents in a
\* call, the docid every indexed document was given
LeafIndexStringBuffers ==
    \E b \in FreshBatches(leaf) :
        /\ leaf' = IndexStringBuffers(leaf, b)
        /\ last' = [NoCall EXCEPT !.op = "index_string_buffers", !.unchanged = FALSE]
        /\ snap' = IF Len(b) = 1
                   THEN [phase |-> "added", pre |-> <<leaf>>, name |-> b[1][1]]
                   ELSE NoSnap
        /\ hist' = [hist EXCEPT !.assigned =
                       @ \o [k \in DOMAIN b |-> leaf'.name_to_docid_map[b[k][1]]]]
        /\ output' = NoFile
        /\ UNCHANGED <<node, ref, clast, thread, envelope>>

LeafDelDocids ==
    \E docids \in ArgLists(0..MaxDocid - 1) :
        LET r == DelDocids(leaf, docids)
        IN /\ leaf' = r.idx
           /\ last' = [op |-> "del_docids", outcome |-> r.outcome,
                       docids |-> docids, live |-> LiveDocids(leaf),
                       unchanged |-> (r.idx = leaf), term |-> ""]
           /\ snap' = IF /\ snap.phase = "added"
                         /\ docids = <<leaf.name_to_docid_map[snap.name]>>
                      THEN [snap EXCEPT !.phase = "removed"]
                      ELSE NoSnap
           /\ output' = NoFile
           /\ UNCHANGED <<node, ref, clast, thread, envelope, hist>>

\* set_config / load_stoplist, called before the first document is indexed
\* (changing the configuration of a populated index is left undefined)
LeafSetConfig ==
    /\ leaf.next_docid = 0
    /\ \/ \E v \in BOOLEAN : leaf' = LeafSetConfigOp(leaf, "lowercase", v)
       \/ \E v \in Stoplists : leaf' = LeafSetConfigOp(leaf, "stoplist", v)
    /\ last' = [NoCall EXCEPT !.op = "set_config", !.unchanged = (leaf' = leaf)]
    /\ snap' = NoSnap
    /\ output' = NoFile
    /\ UNCHANGED <<node, ref, clast, thread, envelope, hist>>

\* with io.BytesIO() as output: sim_index.save(output); the stream is open
\* until the block ends, before the caller's next call on the index
LeafSave ==
    LET r == Save(leaf)
    IN /\ leaf' = r.idx
       /\ output' = <<r.file>>
       /\ last' = [NoCall EXCEPT !.op = "save", !.unchanged = (r.idx = leaf)]
       /\ snap' = NoSnap
       /\ UNCHANGED <<node, ref, clast, thread, envelope, hist>>

LeafPostingsList ==
    \E term \in Tokens :
        LET r == PostingsListCall(leaf, term)
        IN /\ leaf' = r.idx
           /\ last' = [NoCall EXCEPT !.op = "postings_list", !.term = term,
                                     !.unchanged = (r.idx = leaf)]
           /\ snap' = NoSnap
           /\ output' = NoFile
           /\ UNCHANGED <<node, ref, clast, thread, envelope, hist>>

LeafNext ==
    \/ LeafIndexStringBuffers
    \/ LeafDelDocids
    \/ LeafSetConfig
    \/ LeafSave
    \/ LeafPostingsList

SpecLeaf == LeafInit /\ [][LeafNext]_vars

(***************************************************************************)
(* Leaf invariants                                                         *)
(***************************************************************************)
\* C1: for every term that has an entry in the term index, the local df of
\* the term is the number of distinct docids in its postings list
C1_DfCountsPostings ==
    \A t \in DOMAIN leaf.term_index :
        /\ t \in DOMAIN leaf.df_map
        /\ leaf.df_map[t] = Cardinality(PostingDocids(leaf.term_index[t]))

\* C1 witness: after a deletion one document is left, a term of the term
\* index has df 1 and a term of the deleted document has left the term index
C1_Witness ==
    /\ last.op = "del_docids" /\ last.outcome = "ok"
    /\ leaf.N = 1 /\ leaf.next_docid >= 2
    /\ \E t \in DOMAIN leaf.term_index : leaf.df_map[t] = 1
    /\ \E t \in DOMAIN leaf.df_map : t \notin DOMAIN leaf.term_index

\* C2: (d, f) is in postings[t] exactly when d is live and vectors[d][t] = f;
\* a docid occurs at most once per postings list and never when deleted
C2_PostingsMatchVectors ==
    /\ \A t \in DOMAIN leaf.term_index :
         LET pl == leaf.term_index[t]
         IN /\ \A i \in DOMAIN pl :
                 /\ pl[i][1] \in LiveDocids(leaf)
                 /\ t \in DOMAIN leaf.doc_vectors[pl[i][1]]
                 /\ leaf.doc_vectors[pl[i][1]][t] = pl[i][2]
            /\ \A i, j \in DOMAIN pl : pl[i][1] = pl[j][1] => i = j
    /\ \A d \in LiveDocids(leaf) :
         \A t \in DOMAIN leaf.doc_vectors[d] :
            /\ t \in DOMAIN leaf.term_index
            /\ \E i \in DOMAIN leaf.term_index[t] :
                  leaf.term_index[t][i] = <<d, leaf.doc_vectors[d][t]>>

\* C2 witness: a document was deleted and a remaining one shares a postings
\* list with a frequency of 2
C2_Witness ==
    /\ last.op = "del_docids" /\ last.outcome = "ok"
    /\ leaf.N = 1 /\ leaf.next_docid >= 2
    /\ \E t \in DOMAIN leaf.term_index :
          \E i \in DOMAIN leaf.term_index[t] : leaf.term_index[t][i][2] = 2

\* C3: name -> docid and docid -> name are inverse, their domain is the live
\* documents, each has N entries, and a deleted document is in neither
C3_NameDocidBijection ==
    /\ DOMAIN leaf.docid_to_name_map = LiveDocids(leaf)
    /\ Range(leaf.name_to_docid_map) = LiveDocids(leaf)
    /\ \A n \in DOMAIN leaf.name_to_docid_map :
          /\ leaf.name_to_docid_map[n] \in DOMAIN leaf.docid_to_name_map
          /\ leaf.docid_to_name_map[leaf.name_to_docid_map[n]] = n
    /\ \A d \in DOMAIN leaf.docid_to_name_map :
          /\ leaf.docid_to_name_map[d] \in DOMAIN leaf.name_to_docid_map
          /\ leaf.name_to_docid_map[leaf.docid_to_name_map[d]] = d
    /\ Cardinality(DOMAIN leaf.name_to_docid_map) = leaf.N
    /\ Cardinality(DOMAIN leaf.docid_to_name_map) = leaf.N
    /\ \A d \in 0..(leaf.next_docid - 1) :
          d \notin LiveDocids(leaf) =>
             /\ d \notin DOMAIN leaf.docid_to_name_map
             /\ d \notin Range(leaf.name_to_docid_map)

\* C3 witness: one document deleted, one live, and the deleted name is gone
C3_Witness ==
    /\ last.op = "del_docids" /\ last.outcome = "ok"
    /\ leaf.N = 1
    /\ \E n \in Names : n \notin DOMAIN leaf.name_to_docid_map
    /\ \E d \in 0..(leaf.next_docid - 1) : d \notin DOMAIN leaf.docid_to_name_map

(***************************************************************************)
(* What a caller can read from a leaf: postings_list, docnames_with_terms  *)
(* and query under both scorers, over every term and every query of one or *)
(* two tokens.                                                             *)
(***************************************************************************)
Queries == {<<a>> : a \in Tokens} \cup {<<a, b>> : a \in Tokens, b \in Tokens}

LeafReads(L) ==
    [ postings  |-> [t \in Tokens |-> PostingsList(L, t)],
      docnames  |-> [ts \in Queries |-> DocnamesWithTerms(L, ts)],
      query     |-> [q \in Queries |->
                       [sc \in Scorers |-> LeafQuery(LeafSetQueryScorer(L, sc), q)]] ]

\* C4: index_string_buffers of a fresh document followed by del_docids of its
\* docid leaves every postings_list, docnames_with_terms and query result as
\* it was before the document was added
C4_AddThenDeleteRestoresReads ==
    snap.phase = "removed" => LeafReads(leaf) = LeafReads(snap.pre[1])

\* C5: del_docids of a single docid that is not live (never assigned, or
\* already deleted) signals no error and leaves the index unchanged
C5_UnknownDeleteTolerated ==
    (/\ last.op = "del_docids"
     /\ Len(last.docids) = 1
     /\ last.docids[1] \notin last.live)
    => (last.outcome = "ok" /\ last.unchanged)

(***************************************************************************)
(* sim_index_collection.py.  The indexes of a tree are the values of a     *)
(* dict st from node name to index; a collection holds the names of its    *)
(* shards in order.  A node docid "<shard>-<docid>" is the sequence of its *)
(* '-'-separated numbers: a leaf docid d is the number d, "1-0" is         *)
(* <<1, 0>> and "0-1-2" is <<0, 1, 2>>.                                    *)
(***************************************************************************)
\* SimIndexCollection.__init__ with no shards; hash is str(key) + salt
\* hashed, fixed once the salt is drawn
NewCollection(root, hash) ==
    [ kind              |-> "collection",
      shards            |-> <<>>,
      hash              |-> hash,
      _shard_func       |-> <<>>,
      name_to_docid_map |-> EmptyMap,
      docid_to_name_map |-> EmptyMap,
      df_map            |-> EmptyMap,
      N                 |-> 0,
      dirty             |-> FALSE,
      config            |-> [lowercase |-> TRUE, stoplist |-> {}, root |-> root] ]

IsLeaf(st, n) == st[n].kind = "leaf"

\* the leaves below (or at) node n
RECURSIVE LeavesBelow(_, _)
LeavesBelow(st, n) ==
    IF IsLeaf(st, n) THEN {n}
    ELSE UNION {LeavesBelow(st, st[n].shards[i]) : i \in DOMAIN st[n].shards}

\* the docid of a document of node n as the sequence of its numbers
IdSeq(st, n, docid) == IF IsLeaf(st, n) THEN <<docid>> ELSE docid

\* SimIndexCollection.make_node_docid, "{}-{}".format(shard_id, docid)
MakeNodeDocid(shard_id, idseq) == <<shard_id>> \o idseq

\* docid.partition('-') in SimIndexCollection.del_docids: the shard id and
\* the remote docid, cast to int when it holds no further '-'
PartitionDocid(docid) ==
    [shard_id |-> Head(docid),
     remote_docid |-> IF Len(Tail(docid)) = 1 THEN Tail(docid)[1] ELSE Tail(docid)]

\* SimIndexCollection.default_shard_func
DefaultShardFunc(C, shard_key) == C.hash[shard_key] % Len(C.shards)

\* self.shard_func(shard_key): the attribute shard_func is bound to
\* default_shard_func in __init__ and assigned nowhere else
ShardFunc(C, shard_key) == DefaultShardFunc(C, shard_key)

\* SimIndexCollection.set_shard_func
SetShardFunc(C, func) == [C EXCEPT !._shard_func = <<func>>]

\* update_config on a node: a collection passes it through to its shards
RECURSIVE NodeUpdateConfig(_, _, _)
NodeUpdateConfig(st, n, d) ==
    LET own == [st EXCEPT ![n].config = UpdateConfig(@, d)]
    IN IF IsLeaf(st, n) THEN own
       ELSE LET shards == st[n].shards
                F[i \in 0..Len(shards)] ==
                    IF i = 0 THEN own ELSE NodeUpdateConfig(F[i - 1], shards[i], d)
            IN F[Len(shards)]

NodeSetConfigOwnOnly(st, n, key, value) == [st EXCEPT ![n] = LeafSetConfigOp(@, key, value)]

\* set_config on a node: a collection passes it through to its shards
RECURSIVE NodeSetConfig(_, _, _, _)
NodeSetConfig(st, n, key, value) ==
    LET own == [st EXCEPT ![n] = LeafSetConfigOp(@, key, value)]
    IN IF IsLeaf(st, n) THEN own
       ELSE LET shards == st[n].shards
                F[i \in 0..Len(shards)] ==
                    IF i = 0 THEN own ELSE NodeSetConfig(F[i - 1], shards[i], key, value)
            IN F[Len(shards)]

\* SimIndex.load_stoplist on a node: set_config('stoplist', ...) of its class
NodeLoadStoplist(st, n, stopfile) == NodeSetConfig(st, n, "stoplist", StoplistOf(stopfile))

\* set_global_N on a node: a collection only forwards it
RECURSIVE NodeSetGlobalN(_, _, _)
NodeSetGlobalN(st, n, N) ==
    IF IsLeaf(st, n) THEN [st EXCEPT ![n] = LeafSetGlobalN(@, N)]
    ELSE LET shards == st[n].shards
             F[i \in 0..Len(shards)] ==
                 IF i = 0 THEN st ELSE NodeSetGlobalN(F[i - 1], shards[i], N)
         IN F[Len(shards)]

\* set_global_df_map on a node: a collection only forwards it
RECURSIVE NodeSetGlobalDfMap(_, _, _)
NodeSetGlobalDfMap(st, n, df_map) ==
    IF IsLeaf(st, n) THEN [st EXCEPT ![n] = LeafSetGlobalDfMap(@, df_map)]
    ELSE LET shards == st[n].shards
             F[i \in 0..Len(shards)] ==
                 IF i = 0 THEN st ELSE NodeSetGlobalDfMap(F[i - 1], shards[i], df_map)
         IN F[Len(shards)]

\* set_query_scorer on a node: a collection only forwards it
RECURSIVE NodeSetQueryScorer(_, _, _)
NodeSetQueryScorer(st, n, scorer) ==
    IF IsLeaf(st, n) THEN [st EXCEPT ![n] = LeafSetQueryScorer(@, scorer)]
    ELSE LET shards == st[n].shards
             F[i \in 0..Len(shards)] ==
                 IF i = 0 THEN st ELSE NodeSetQueryScorer(F[i - 1], shards[i], scorer)
         IN F[Len(shards)]

MergedDfMapOverwrite(st, shards) ==
    LET terms == UNION {DOMAIN st[shards[i]].df_map : i \in DOMAIN shards}
        lastWith(t) == CHOOSE i \in DOMAIN shards :
                          /\ t \in DOMAIN st[shards[i]].df_map
                          /\ \A j \in DOMAIN shards :
                                t \in DOMAIN st[shards[j]].df_map => j <= i
    IN [t \in terms |-> st[shards[lastWith(t)]].df_map[t]]

\* merge_df_map of update_node_stats, over all shards
MergedDfMap(st, shards) ==
    LET terms == UNION {DOMAIN st[shards[i]].df_map : i \in DOMAIN shards}
    IN [t \in terms |->
          SumOver([i \in DOMAIN shards |-> Get(st[shards[i]].df_map, t, 0)], DOMAIN shards)]

\* SimIndexCollection.update_node_stats: N and the df map are rebuilt, the
\* name <-> node docid maps are assigned into
UpdateNodeStats(st, c) ==
    LET shards == st[c].shards
        maps == [i \in DOMAIN shards |-> st[shards[i]].name_to_docid_map]
        \* the last shard that holds the name assigns last
        owner(name) == CHOOSE i \in DOMAIN shards :
                          /\ name \in DOMAIN maps[i]
                          /\ \A j \in DOMAIN shards : name \in DOMAIN maps[j] => j <= i
        names == UNION {DOMAIN maps[i] : i \in DOMAIN shards}
        gdocid(i, name) == MakeNodeDocid(i - 1, IdSeq(st, shards[i], maps[i][name]))
        gdocids == {gdocid(i, name) : <<i, name>> \in
                       {p \in (DOMAIN shards) \X names : p[2] \in DOMAIN maps[p[1]]}}
        nameOf(g) == CHOOSE name \in names :
                        \E i \in DOMAIN shards : name \in DOMAIN maps[i] /\ gdocid(i, name) = g
    IN [st EXCEPT
          ![c].N = SumOver([i \in DOMAIN shards |-> st[shards[i]].N], DOMAIN shards),
          ![c].df_map = MergedDfMap(st, shards),
          ![c].name_to_docid_map =
              [name \in (DOMAIN @) \cup names |->
                  IF name \in names THEN gdocid(owner(name), name) ELSE @[name]],
          ![c].docid_to_name_map =
              [g \in (DOMAIN @) \cup gdocids |->
                  IF g \in gdocids THEN nameOf(g) ELSE @[g]]]

\* the three reports update_node_stats asks of a shard, in this order
StatsCalls == <<"get_local_N", "get_local_df_map", "get_name_to_docid_map">>

\* SimIndexCollection.update_node_stats when call number k to shard i raises:
\* N and the df map were reset and hold what was added before the call; the
\* name <-> node docid maps are only written after the loop
UpdateNodeStatsFails(st, c, i, k) ==
    LET shards == st[c].shards
        counted == IF k > 1 THEN 1..i ELSE 1..(i - 1)
        merged == IF k > 2 THEN SubSeq(shards, 1, i) ELSE SubSeq(shards, 1, i - 1)
    IN [st EXCEPT
          ![c].N = SumOver([j \in DOMAIN shards |-> st[shards[j]].N], counted),
          ![c].df_map = MergedDfMap(st, merged)]

\* SimIndexCollection.broadcast_node_stats
BroadcastNodeStats(st, c) ==
    LET shards == st[c].shards
        F[i \in 0..Len(shards)] ==
            IF i = 0 THEN st
            ELSE NodeSetGlobalDfMap(NodeSetGlobalN(F[i - 1], shards[i], st[c].N),
                                    shards[i], st[c].df_map)
    IN F[Len(shards)]

UpdateTriggerHelperNoBroadcast(st, c) == UpdateNodeStats(st, c)

\* SimIndexCollection.update_trigger_helper
UpdateTriggerHelper(st, c) ==
    LET updated == UpdateNodeStats(st, c)
    IN IF updated[c].config.root THEN BroadcastNodeStats(updated, c) ELSE updated

\* the wrapper of SimIndexCollection.update_trigger after the wrapped method:
\* r is the tree and the outcome the method left; an exception skips the rest
AfterUpdate(r, c) ==
    IF r.outcome # "ok" THEN r
    ELSE IF r.st[c].dirty
         THEN [st |-> [UpdateTriggerHelper(r.st, c) EXCEPT ![c].dirty = FALSE],
               outcome |-> "ok"]
    ELSE r

\* the (name, buffer) pairs or urls that shard_func sends to shard i - 1
ShardShare(C, keyed, i) ==
    SelectSeq(keyed, LAMBDA p : ShardFunc(C, p[1]) = i - 1)

RECURSIVE NodeIndexStringBuffers(_, _, _)

\* the wrapper of update_trigger up to the return of the wrapped
\* SimIndexCollection.index_string_buffers: self._dirty = True, then one call
\* per shard that has some input
RoutedIndexStringBuffers(st, n, named_string_buffers) ==
    LET C == st[n]
        begun == [st EXCEPT ![n].dirty = TRUE]
        F[i \in 0..Len(C.shards)] ==
            IF i = 0 THEN [st |-> begun, outcome |-> "ok"]
            ELSE IF F[i - 1].outcome # "ok" \/ ShardShare(C, named_string_buffers, i) = <<>>
                 THEN F[i - 1]
            ELSE NodeIndexStringBuffers(F[i - 1].st, C.shards[i],
                                        ShardShare(C, named_string_buffers, i))
    IN IF named_string_buffers # <<>> /\ Len(C.shards) = 0
       THEN [st |-> begun, outcome |-> "ZeroDivisionError"]
       ELSE F[Len(C.shards)]

\* index_string_buffers on a node.  On a collection it is
\* SimIndexCollection.index_string_buffers inside update_trigger
NodeIndexStringBuffers(st, n, named_string_buffers) ==
    IF IsLeaf(st, n)
    THEN [st |-> [st EXCEPT ![n] = IndexStringBuffers(@, named_string_buffers)],
          outcome |-> "ok"]
    ELSE AfterUpdate(RoutedIndexStringBuffers(st, n, named_string_buffers), n)

\* SimIndexCollection.index_files inside update_trigger: reads the files and
\* calls the decorated index_string_buffers
CollIndexFiles(st, c, named_files) ==
    AfterUpdate(NodeIndexStringBuffers([st EXCEPT ![c].dirty = TRUE], c, named_files), c)

\* index_urls on a node; fetched is the (url, page) pairs in the order the
\* fetches complete.  On a leaf it is SimIndex.index_urls, on a collection
\* SimIndexCollection.index_urls inside update_trigger
RECURSIVE NodeIndexUrls(_, _, _)
NodeIndexUrls(st, n, fetched) ==
    IF IsLeaf(st, n)
    THEN [st |-> [st EXCEPT ![n] = IndexFiles(@, fetched)], outcome |-> "ok"]
    ELSE
      LET C == st[n]
          begun == [st EXCEPT ![n].dirty = TRUE]
          F[i \in 0..Len(C.shards)] ==
              IF i = 0 THEN [st |-> begun, outcome |-> "ok"]
              ELSE IF F[i - 1].outcome # "ok" \/ ShardShare(C, fetched, i) = <<>>
                   THEN F[i - 1]
              ELSE NodeIndexUrls(F[i - 1].st, C.shards[i], ShardShare(C, fetched, i))
      IN IF fetched # <<>> /\ Len(C.shards) = 0
         THEN [st |-> begun, outcome |-> "ZeroDivisionError"]
         ELSE AfterUpdate(F[Len(C.shards)], n)

\* del_docids on a node.  On a collection it is
\* SimIndexCollection.del_docids inside update_trigger: the docids are
\* grouped by their leading shard id and each group goes to its shard
RECURSIVE NodeDelDocids(_, _, _)
NodeDelDocids(st, n, docids) ==
    IF IsLeaf(st, n)
    THEN LET r == DelDocids(st[n], docids)
         IN [st |-> [st EXCEPT ![n] = r.idx], outcome |-> r.outcome]
    ELSE
      LET C == st[n]
          begun == [st EXCEPT ![n].dirty = TRUE]
          parts == [k \in DOMAIN docids |-> PartitionDocid(docids[k])]
          group(i) == LET mine == SelectSeq(parts, LAMBDA p : p.shard_id = i - 1)
                      IN [k \in DOMAIN mine |-> mine[k].remote_docid]
          F[i \in 0..Len(C.shards)] ==
              IF i = 0 THEN [st |-> begun, outcome |-> "ok"]
              ELSE IF F[i - 1].outcome # "ok" \/ group(i) = <<>>
                   THEN F[i - 1]
              ELSE NodeDelDocids(F[i - 1].st, C.shards[i], group(i))
      IN IF \E k \in DOMAIN parts : parts[k].shard_id >= Len(C.shards)
         THEN [st |-> F[Len(C.shards)].st,
               outcome |-> IF F[Len(C.shards)].outcome # "ok"
                           THEN F[Len(C.shards)].outcome ELSE "IndexError"]
         ELSE AfterUpdate(F[Len(C.shards)], n)

\* SimIndexCollection.add_shards
AddShards(st, c, sim_index_shards) ==
    LET F[i \in 0..Len(sim_index_shards)] ==
            IF i = 0 THEN st
            ELSE NodeUpdateConfig(F[i - 1], sim_index_shards[i], st[c].config)
        configured == F[Len(sim_index_shards)]
    IN UpdateTriggerHelper([configured EXCEPT ![c].shards = @ \o sim_index_shards], c)

\* postings_list on a node.  SimIndexCollection.postings_list concatenates
\* the shards' lists with every docid rewritten to a node docid
RECURSIVE NodePostingsList(_, _, _)
NodePostingsList(st, n, term) ==
    IF IsLeaf(st, n) THEN PostingsList(st[n], term)
    ELSE LET shards == st[n].shards
             rewritten(i) ==
                 LET pl == NodePostingsList(st, shards[i], term)
                 IN [k \in DOMAIN pl |->
                       <<MakeNodeDocid(i - 1, IdSeq(st, shards[i], pl[k][1])), pl[k][2]>>]
             F[i \in 0..Len(shards)] ==
                 IF i = 0 THEN <<>> ELSE F[i - 1] \o rewritten(i)
         IN F[Len(shards)]

\* string order of two node docids with one-digit numbers: position by
\* position, a proper prefix first
RECURSIVE LexLess(_, _)
LexLess(a, b) ==
    IF a = <<>> THEN b # <<>>
    ELSE IF b = <<>> THEN FALSE
    ELSE IF Head(a) # Head(b) THEN Head(a) < Head(b)
    ELSE LexLess(Tail(a), Tail(b))

\* sorted(S) for a set of node docids
RECURSIVE SortedIds(_)
SortedIds(S) ==
    IF S = {} THEN <<>>
    ELSE LET m == CHOOSE x \in S : \A y \in S : x = y \/ LexLess(x, y)
         IN <<m>> \o SortedIds(S \ {m})

\* SimIndex.docids_with_terms on a collection
CollDocidsWithTerms(st, c, terms) ==
    IF terms = <<>> THEN <<>>
    ELSE SortedIds({g \in PostingDocids(NodePostingsList(st, c, terms[1])) :
                      \A k \in DOMAIN terms :
                         g \in PostingDocids(NodePostingsList(st, c, terms[k]))})

\* SimIndex.docnames_with_terms on a collection, consumed to a list
CollDocnamesWithTerms(st, c, terms) ==
    LET ts == IF st[c].config.lowercase THEN [k \in DOMAIN terms |-> Lower(terms[k])]
              ELSE terms
        docids == CollDocidsWithTerms(st, c, ts)
    IN IF \E k \in DOMAIN docids : docids[k] \notin DOMAIN st[c].docid_to_name_map
       THEN [outcome |-> "KeyError", names |-> <<>>]
       ELSE [outcome |-> "ok",
             names |-> [k \in DOMAIN docids |-> st[c].docid_to_name_map[docids[k]]]]

\* the sum of two multisets
BagPlus(a, b) ==
    [p \in (DOMAIN a) \cup (DOMAIN b) |-> Get(a, p, 0) + Get(b, p, 0)]

\* query(query_vec) on a node, consumed: the multiset of (name, score)
\* results.  SimIndexCollection._query extends its list by every shard's
\* results
RECURSIVE NodeQueryVec(_, _, _)
NodeQueryVec(st, n, query_vec) ==
    IF IsLeaf(st, n)
    THEN LET r == LeafQueryVec(st[n], query_vec)
         IN [outcome |-> r.outcome, results |-> AsBag(r.hits)]
    ELSE LET shards == st[n].shards
             F[i \in 0..Len(shards)] ==
                 IF i = 0 THEN [outcome |-> "ok", results |-> EmptyMap]
                 ELSE IF F[i - 1].outcome # "ok" THEN F[i - 1]
                 ELSE LET r == NodeQueryVec(st, shards[i], query_vec)
                      IN IF r.outcome # "ok" THEN [outcome |-> r.outcome, results |-> EmptyMap]
                         ELSE [outcome |-> "ok",
                               results |-> BagPlus(F[i - 1].results, r.results)]
         IN F[Len(shards)]

\* SimIndex.query with a string q on a collection
CollQuery(st, c, q) ==
    NodeQueryVec(st, c, TermVecString(q, st[c].config.stoplist, st[c].config.lowercase))

(***************************************************************************)
(* A tree of in-process indexes: the root collection R, the collection M   *)
(* built with root=False, and two memory leaves.  A client attaches shards *)
(* to either collection and reads and writes through the root.  ref is one *)
(* leaf that is given the documents that the leaves of the tree took in    *)
(* and lost.                                                               *)
(***************************************************************************)
Collections == {"R", "M"}

Leaves == {"L1", "L2"}

\* the values of hash(str(name) + salt) that matter for up to MaxShards shards
Hashes == [Names -> 0..(MaxShards - 1)]

Attached(st) == UNION {Range(st[c].shards) : c \in Collections}

\* name -> name of the leaf that holds it, over all leaves
LiveNames(st, ls) == UNION {DOMAIN st[l].name_to_docid_map : l \in ls}

RECURSIVE DelNames(_, _)
DelNames(L, names) ==
    IF names = {} THEN L
    ELSE LET n == CHOOSE x \in names : TRUE
         IN DelNames(DelDocids(L, <<L.name_to_docid_map[n]>>).idx, names \ {n})

\* the single leaf after the same documents came and went as between the
\* trees st and st2, where pairs are the (name, buffer) pairs of the call
MirrorRef(L, st, st2, pairs) ==
    LET added == SelectSeq(pairs, LAMBDA p : p[1] \in LiveNames(st2, Leaves) \ LiveNames(st, Leaves))
    IN DelNames(IndexStringBuffers(L, added), LiveNames(st, Leaves) \ LiveNames(st2, Leaves))

\* batches of documents whose names are pairwise distinct and live nowhere
CollFreshBatches(st, L) ==
    {b \in ArgLists((Names \ LiveNames(st, Leaves)) \X CollBodies) :
        /\ \A i, j \in DOMAIN b : i # j => b[i][1] # b[j][1]
        /\ L.next_docid + Len(b) <= MaxCollDocs}

\* the last call on a collection: add_shards, index (index_files,
\* index_string_buffers or index_urls) or del_docids, its target, its outcome
CollCall(op, c, outcome) ==
    [op |-> op, target |-> c, outcome |-> outcome]

\* the salt of M spreads the names over its shards
SpreadHash == [n \in Names |-> IF n = "d1" THEN 0 ELSE 1 % MaxShards]

CollInit ==
    /\ \E hR \in Hashes :
          node = [n \in Collections \cup Leaves |->
                    IF n = "R" THEN NewCollection(TRUE, hR)
                    ELSE IF n = "M" THEN NewCollection(FALSE, SpreadHash)
                    ELSE NewLeaf]
    /\ ref = NewLeaf
    /\ clast = CollCall("init", "R", "ok")
    /\ thread = IdleThreads
    /\ envelope = NewEnvelope
    /\ hist = NoHist
    /\ output = NoFile
    /\ leaf = NewLeaf
    /\ last = NoCall
    /\ snap = NoSnap

\* add_shards: the new shards are indexes that no collection holds yet, the
\* leaves in the order they were made; M is given leaves only
CollAddShards ==
    \E c \in Collections :
      \E ss \in ArgLists((Leaves \cup (IF c = "R" THEN {"M"} ELSE {})) \ Attached(node)) :
        /\ \A i, j \in DOMAIN ss : i # j => ss[i] # ss[j]
        /\ "L2" \in Range(ss) => "L1" \in Attached(node)
        /\ Len(node[c].shards) + Len(ss) <= MaxShards
        /\ node' = AddShards(node, c, ss)
        /\ clast' = CollCall("add_shards", c, "ok")
        /\ UNCHANGED <<ref, leaf, last, snap, thread, envelope, hist, output>>

CollIndexStringBuffersCall ==
    \E c \in {"R"} :
      \E b \in CollFreshBatches(node, ref) :
        LET r == NodeIndexStringBuffers(node, c, b)
        IN /\ node' = r.st
           /\ ref' = MirrorRef(ref, node, r.st, b)
           /\ clast' = CollCall("index", c, r.outcome)
           /\ UNCHANGED <<leaf, last, snap, thread, envelope, hist, output>>

CollIndexFilesCall ==
    \E c \in {"R"} :
      \E b \in CollFreshBatches(node, ref) :
        LET r == CollIndexFiles(node, c, b)
        IN /\ node' = r.st
           /\ ref' = MirrorRef(ref, node, r.st, b)
           /\ clast' = CollCall("index", c, r.outcome)
           /\ UNCHANGED <<leaf, last, snap, thread, envelope, hist, output>>

CollIndexUrlsCall ==
    \E c \in {"R"} :
      \E b \in CollFreshBatches(node, ref) :
        LET r == NodeIndexUrls(node, c, b)
        IN /\ node' = r.st
           /\ ref' = MirrorRef(ref, node, r.st, b)
           /\ clast' = CollCall("index", c, r.outcome)
           /\ UNCHANGED <<leaf, last, snap, thread, envelope, hist, output>>

\* index_string_buffers through the root whose wrapped method returns and
\* whose reconciliation fails: a shard (a remote one, say) raises on one of
\* its three reports, and the exception leaves update_trigger
CollStatsReportFails ==
    \E b \in CollFreshBatches(node, ref) :
      \E i \in DOMAIN node["R"].shards, k \in DOMAIN StatsCalls :
        LET r == RoutedIndexStringBuffers(node, "R", b)
        IN /\ r.outcome = "ok"
           /\ node' = UpdateNodeStatsFails(r.st, "R", i, k)
           /\ ref' = MirrorRef(ref, node, r.st, b)
           /\ clast' = CollCall("index", "R", "StatsError")
           /\ UNCHANGED <<leaf, last, snap, thread, envelope, hist, output>>

\* del_docids with node docids the collection has handed out
CollDelDocidsCall ==
    \E c \in {"R"} :
      \E docids \in ArgLists(DOMAIN node[c].docid_to_name_map) :
        LET r == NodeDelDocids(node, c, docids)
        IN /\ node' = r.st
           /\ ref' = MirrorRef(ref, node, r.st, <<>>)
           /\ clast' = CollCall("del_docids", c, r.outcome)
           /\ UNCHANGED <<leaf, last, snap, thread, envelope, hist, output>>

CollNext ==
    \/ CollAddShards
    \/ CollIndexStringBuffersCall
    \/ CollIndexFilesCall
    \/ CollIndexUrlsCall
    \/ CollStatsReportFails
    \/ CollDelDocidsCall

SpecColl == CollInit /\ [][CollNext]_vars

(***************************************************************************)
(* The same tree with a client that chooses the shard function of the root *)
(* and only adds documents.                                                *)
(***************************************************************************)
\* the functions a caller passes to set_shard_func: lambda name: 0
ShardFuncs == { [n \in Names |-> 0] }

CollSetShardFunc ==
    \E f \in ShardFuncs :
        /\ node' = [node EXCEPT !["R"] = SetShardFunc(@, f)]
        /\ clast' = CollCall("set_shard_func", "R", "ok")
        /\ UNCHANGED <<ref, leaf, last, snap, thread, envelope, hist, output>>

RouteNext ==
    \/ CollAddShards
    \/ CollSetShardFunc
    \/ CollIndexStringBuffersCall
    \/ CollIndexFilesCall
    \/ CollIndexUrlsCall

SpecRoute == CollInit /\ [][RouteNext]_vars

(***************************************************************************)
(* The same tree with a client that attaches shards and configures: the    *)
(* root at any time, the collection M while nothing holds it.              *)
(***************************************************************************)
\* the keys a caller passes: the two recognised ones and another
ConfigKeys == {"lowercase", "stoplist", "verbose"}

\* the values a caller passes for a key
ConfigValues(key) ==
    IF key = "lowercase" THEN BOOLEAN
    ELSE IF key = "stoplist" THEN Stoplists
    ELSE {TRUE}

\* the keyword arguments of update_config: one key, or both recognised keys
ConfigDicts ==
    UNION {[{k} -> ConfigValues(k)] : k \in ConfigKeys}
       \cup {[lowercase |-> v, stoplist |-> sl] : v \in BOOLEAN, sl \in Stoplists}

\* one-line stop files
Stopfiles == { << <<"stop">> >>, << <<>> >> }

\* the indexes this client configures directly
Configurable == {"R"} \cup ({"M"} \ Attached(node))

\* a configuration call: its name, target, outcome, the keys it was given
\* and whether it left every index's configuration as it was
ConfCall(op, n, outcome, keys, st) ==
    [op |-> op, target |-> n, outcome |-> outcome, keys |-> keys,
     unchanged |-> \A m \in DOMAIN st : st[m].config = node[m].config]

\* the tree before any call; the salts play no part in configuration
ConfInit ==
    /\ node = [n \in Collections \cup Leaves |->
                 IF n = "R" THEN NewCollection(TRUE, SpreadHash)
                 ELSE IF n = "M" THEN NewCollection(FALSE, SpreadHash)
                 ELSE NewLeaf]
    /\ ref = NewLeaf
    /\ clast = CollCall("init", "R", "ok")
    /\ thread = IdleThreads
    /\ envelope = NewEnvelope
    /\ hist = NoHist
    /\ output = NoFile
    /\ leaf = NewLeaf
    /\ last = NoCall
    /\ snap = NoSnap

ConfConfig ==
    \E n \in Configurable, key \in ConfigKeys :
        /\ clast' = ConfCall("config", n, Config(node[n], key).outcome, {key}, node)
        /\ UNCHANGED <<node, ref, leaf, last, snap, thread, envelope, hist, output>>

ConfSetConfig ==
    \E n \in Configurable, key \in ConfigKeys :
      \E value \in ConfigValues(key) :
        LET st == NodeSetConfig(node, n, key, value)
        IN /\ node' = st
           /\ clast' = ConfCall("set_config", n, "ok", {key}, st)
           /\ UNCHANGED <<ref, leaf, last, snap, thread, envelope, hist, output>>

ConfUpdateConfig ==
    \E n \in Configurable, d \in ConfigDicts :
        LET st == NodeUpdateConfig(node, n, d)
        IN /\ node' = st
           /\ clast' = ConfCall("update_config", n, "ok", DOMAIN d, st)
           /\ UNCHANGED <<ref, leaf, last, snap, thread, envelope, hist, output>>

ConfLoadStoplist ==
    \E n \in Configurable, stopfile \in Stopfiles :
        LET st == NodeLoadStoplist(node, n, stopfile)
        IN /\ node' = st
           /\ clast' = ConfCall("load_stoplist", n, "ok", {"stoplist"}, st)
           /\ UNCHANGED <<ref, leaf, last, snap, thread, envelope, hist, output>>

ConfNext ==
    \/ CollAddShards
    \/ ConfConfig
    \/ ConfSetConfig
    \/ ConfUpdateConfig
    \/ ConfLoadStoplist

SpecConf == ConfInit /\ [][ConfNext]_vars


(***************************************************************************)
(* Claims about the collection.                                            *)
(***************************************************************************)
\* the last call on the collection was a write that returned
WriteReturned(c) ==
    clast.target = c /\ clast.op \in {"index", "del_docids"} /\ clast.outcome = "ok"

\* the terms a document or a query can hold
Terms == Tokens \cup {Lower(t) : t \in Tokens}

\* get_local_N() of shard i of collection c
ShardN(c, i) == node[node[c].shards[i]].N

\* get_local_df_map()[t] of shard i of collection c, 0 where the term is absent
ShardDf(c, i, t) == Get(node[node[c].shards[i]].df_map, t, 0)

\* C6: after a collection write (index_files, index_string_buffers,
\* index_urls, del_docids) has returned, and after add_shards, the
\* collection's N is the sum of its shards' local N and, for every term, its
\* df is the sum of its shards' local df
C6_AggregatesAreShardSums ==
    \A c \in Collections :
      (WriteReturned(c) \/ (clast.target = c /\ clast.op = "add_shards")) =>
        LET idx == DOMAIN node[c].shards
        IN /\ node[c].N = SumOver([i \in idx |-> ShardN(c, i)], idx)
           /\ \A t \in Terms \cup DOMAIN node[c].df_map :
                 Get(node[c].df_map, t, 0) = SumOver([i \in idx |-> ShardDf(c, i, t)], idx)

\* a write through R returned and left two shards with one document each
\* that share a term
C6_Witness ==
    /\ WriteReturned("R")
    /\ Len(node["R"].shards) = 2
    /\ \A i \in {1, 2} : ShardN("R", i) = 1
    /\ \E t \in Terms : /\ \A i \in {1, 2} : ShardDf("R", i, t) = 1
                        /\ Get(node["R"].df_map, t, 0) = 2

\* what a client reads from the collection c, by document name
CollReads(st, c) ==
    [ postings |-> [t \in Tokens |->
                      LET pl == NodePostingsList(st, c, t)
                      IN IF \E k \in DOMAIN pl : pl[k][1] \notin DOMAIN st[c].docid_to_name_map
                         THEN [outcome |-> "KeyError", names |-> EmptyMap]
                         ELSE [outcome |-> "ok", names |-> AsBag([k \in DOMAIN pl |->
                                  <<st[c].docid_to_name_map[pl[k][1]], pl[k][2]>>])]],
      docnames |-> [ts \in Queries |->
                      LET r == CollDocnamesWithTerms(st, c, ts)
                      IN <<r.outcome, Range(r.names)>>],
      query    |-> [q \in Queries |->
                      [sc \in Scorers |->
                         LET r == CollQuery(NodeSetQueryScorer(st, c, sc), c, q)
                         IN <<r.outcome, r.results>>]] ]

\* what a client reads from the single leaf L, by document name
SingleLeafReads(L) ==
    [ postings |-> [t \in Tokens |->
                      LET pl == PostingsList(L, t)
                      IN IF \E k \in DOMAIN pl : pl[k][1] \notin DOMAIN L.docid_to_name_map
                         THEN [outcome |-> "KeyError", names |-> EmptyMap]
                         ELSE [outcome |-> "ok", names |-> AsBag([k \in DOMAIN pl |->
                                  <<L.docid_to_name_map[pl[k][1]], pl[k][2]>>])]],
      docnames |-> [ts \in Queries |->
                      LET r == DocnamesWithTerms(L, ts)
                      IN <<r.outcome, Range(r.names)>>],
      query    |-> [q \in Queries |->
                      [sc \in Scorers |->
                         LET r == LeafQuery(LeafSetQueryScorer(L, sc), q)
                         IN <<r.outcome, AsBag(r.hits)>>]] ]

\* R is a root collection over several leaf shards
RootOverLeaves ==
    /\ Len(node["R"].shards) >= 2
    /\ \A i \in DOMAIN node["R"].shards : IsLeaf(node, node["R"].shards[i])

\* C7: after any sequence of index and del_docids calls issued through a
\* root collection over several leaf shards, query under either scorer,
\* docnames_with_terms and postings_list (its node docids translated to
\* names) read as they do on one leaf that holds the same documents
C7_CollectionReadsAsSingleLeaf ==
    (RootOverLeaves /\ clast.target = "R" /\ clast.op \in {"index", "del_docids"}) =>
       CollReads(node, "R") = SingleLeafReads(ref)

\* C8: after a write through the root collection has returned, every leaf
\* below it, at any depth, holds the root's N as its global N and the root's
\* df map as its global df map
C8_LeavesHoldRootStats ==
    WriteReturned("R") =>
      \A l \in LeavesBelow(node, "R") :
         /\ node[l].global_N = <<node["R"].N>>
         /\ node[l].global_df_map = <<node["R"].df_map>>

\* a write through R returned; a leaf two levels down and a leaf one level
\* down hold one document each and the root's N = 2
C8_Witness ==
    /\ WriteReturned("R")
    /\ node["R"].N = 2
    /\ \E i, j \in DOMAIN node["R"].shards :
          /\ node["R"].shards[i] = "M"
          /\ IsLeaf(node, node["R"].shards[j])
          /\ node[node["R"].shards[j]].N = 1
          /\ node[node["R"].shards[j]].global_N = <<2>>
          /\ \E k \in DOMAIN node["M"].shards :
                /\ node[node["M"].shards[k]].N = 1
                /\ node[node["M"].shards[k]].global_N = <<2>>

(***************************************************************************)
(* Client threads calling through the envelope and the workers of its      *)
(* pool.  A pool of ten workers runs every submitted future at once.       *)
(***************************************************************************)
ConcInit ==
    /\ thread = IdleThreads
    /\ envelope = NewEnvelope
    /\ hist = NoHist
    /\ output = NoFile
    /\ leaf = NewLeaf
    /\ last = NoCall
    /\ snap = NoSnap
    /\ node = EmptyMap
    /\ ref = NewLeaf
    /\ clast = CollCall("init", "R", "ok")

\* the futures whose index_urls call has returned to its caller
Returned ==
    {f \in Futures : /\ envelope.task[f] # "none"
                     /\ \A t \in Threads : thread[t].future # <<f>>}

\* the history once the call of thread t is over
CallOver(t) == [hist EXCEPT !["awaited"][t] = {}, !["errors"][t] = {}]

\* __getattr__(name) and the call of the wrapper it returns: a READ method
\* waits for the futures first, a WRITE method goes for the lock, index_urls
\* goes to the pool
GetAttr(t) ==
    /\ thread[t].pc = "idle"
    /\ \E name \in READ_METHODS \cup WRITE_METHODS \cup NONBLOCKING_METHODS :
          /\ thread' = [thread EXCEPT ![t].pc =
                        IF name \in READ_METHODS THEN "futures_wait"
                        ELSE IF name \in WRITE_METHODS THEN "acquire"
                        ELSE "submit"]
          /\ hist' = IF name \in READ_METHODS
                     THEN [hist EXCEPT
                             !["awaited"][t] = Returned,
                             !["errors"][t] =
                                {f \in Returned : /\ envelope.task[f] = "raised"
                                                  /\ f \notin hist.reported}]
                     ELSE hist
    /\ UNCHANGED <<envelope, leaf, last, snap, node, ref, clast, output>>

\* _futures_wait up to its last line: futures.wait returns once every future
\* of self._futures has finished; the exception of one of them is raised out
\* of __getattr__
FuturesWait(t) ==
    /\ thread[t].pc = "futures_wait"
    /\ \A f \in envelope.futures : envelope.task[f] \in {"done", "raised"}
    /\ thread' = [thread EXCEPT ![t] =
                     IF \E f \in envelope.futures : envelope.task[f] = "raised"
                     THEN [IdleThread EXCEPT !.outcome = "raised"]
                     ELSE [@ EXCEPT !.pc = "futures_reset"]]
    /\ IF \E f \in envelope.futures : envelope.task[f] = "raised"
       THEN \E f \in envelope.futures :
               /\ envelope.task[f] = "raised"
               /\ hist' = [CallOver(t) EXCEPT !.reported = @ \cup {f}]
       ELSE hist' = hist
    /\ UNCHANGED <<envelope, leaf, last, snap, node, ref, clast, output>>

\* the last line of _futures_wait: self._futures = set()
FuturesReset(t) ==
    /\ thread[t].pc = "futures_reset"
    /\ envelope' = [envelope EXCEPT !.futures = {}]
    /\ thread' = [thread EXCEPT ![t].pc = "acquire"]
    /\ UNCHANGED <<hist, leaf, last, snap, node, ref, clast, output>>

\* acquire_read_lock / acquire_write_lock in the wrapper
Acquire(t) ==
    /\ thread[t].pc = "acquire"
    /\ RLockFree(envelope.lock, t)
    /\ envelope' = [envelope EXCEPT !.lock = RLockAcquire(@, t)]
    /\ thread' = [thread EXCEPT ![t].pc = "body"]
    /\ UNCHANGED <<hist, leaf, last, snap, node, ref, clast, output>>

\* func(*args, **kwargs) in the wrapper returns
BodyReturns(t) ==
    /\ thread[t].pc = "body"
    /\ thread' = [thread EXCEPT ![t].pc = "release", ![t].outcome = "ok"]
    /\ UNCHANGED <<envelope, hist, leaf, last, snap, node, ref, clast, output>>

\* func(*args, **kwargs) in the wrapper raises
BodyRaises(t) ==
    /\ thread[t].pc = "body"
    /\ thread' = [thread EXCEPT ![t].pc = "release", ![t].outcome = "raised"]
    /\ UNCHANGED <<envelope, hist, leaf, last, snap, node, ref, clast, output>>

\* the finally clause of the wrapper: release_read_lock / release_write_lock
Release(t) ==
    /\ thread[t].pc = "release"
    /\ envelope' = [envelope EXCEPT !.lock = RLockRelease(@)]
    /\ thread' = [thread EXCEPT ![t].pc = "idle"]
    /\ hist' = CallOver(t)
    /\ UNCHANGED <<leaf, last, snap, node, ref, clast, output>>

\* the wrapper of _nonblocking_decorator, first line: the wrapped index's own
\* bound index_urls is handed to the pool
Submit(t) ==
    /\ thread[t].pc = "submit"
    /\ \E f \in Futures :
          /\ envelope.task[f] = "none"
          /\ \A g \in Futures : envelope.task[g] = "none" => f <= g
          /\ envelope' = [envelope EXCEPT !.task[f] = "pending"]
          /\ thread' = [thread EXCEPT ![t].pc = "futures_add", ![t].future = <<f>>]
    /\ UNCHANGED <<hist, leaf, last, snap, node, ref, clast, output>>

\* the wrapper of _nonblocking_decorator, second line
FuturesAdd(t) ==
    /\ thread[t].pc = "futures_add"
    /\ envelope' = [envelope EXCEPT !.futures = @ \cup {thread[t].future[1]}]
    /\ thread' = [thread EXCEPT ![t] = [IdleThread EXCEPT !.outcome = "ok"]]
    /\ UNCHANGED <<hist, leaf, last, snap, node, ref, clast, output>>

\* a worker starts the future: SimIndex.index_urls of the wrapped index
\* calls self.index_files, the wrapped index's own method, which takes no
\* lock
TaskIndexFiles(f) ==
    /\ envelope.task[f] = "pending"
    /\ envelope' = [envelope EXCEPT !.task[f] = "index_files"]
    /\ UNCHANGED <<thread, hist, leaf, last, snap, node, ref, clast, output>>

\* index_files has taken in every page
TaskReturns(f) ==
    /\ envelope.task[f] = "index_files"
    /\ envelope' = [envelope EXCEPT !.task[f] = "done"]
    /\ UNCHANGED <<thread, hist, leaf, last, snap, node, ref, clast, output>>

\* a fetch failed: the generator of get_urls raises inside index_files
TaskRaises(f) ==
    /\ envelope.task[f] = "index_files"
    /\ envelope' = [envelope EXCEPT !.task[f] = "raised"]
    /\ UNCHANGED <<thread, hist, leaf, last, snap, node, ref, clast, output>>

ConcNext ==
    \/ \E t \in Threads :
          \/ GetAttr(t)
          \/ FuturesWait(t)
          \/ FuturesReset(t)
          \/ Acquire(t)
          \/ BodyReturns(t)
          \/ BodyRaises(t)
          \/ Release(t)
          \/ Submit(t)
          \/ FuturesAdd(t)
    \/ \E f \in Futures :
          \/ TaskIndexFiles(f)
          \/ TaskReturns(f)
          \/ TaskRaises(f)

SpecConc == ConcInit /\ [][ConcNext]_vars

(***************************************************************************)
(* Claims about the envelope.                                              *)
(***************************************************************************)
\* C9: the bodies of two READ or WRITE calls issued through the envelope by
\* different threads never run at the same time, and a thread holds the lock
\* from before its wrapped method starts until after it returned or raised
C9_BodiesExcludeEachOther ==
    /\ \A t1, t2 \in Threads :
          (thread[t1].pc = "body" /\ thread[t2].pc = "body") => t1 = t2
    /\ \A t \in Threads :
          thread[t].pc \in {"body", "release"} => envelope.lock.owner = <<t>>

\* one thread is inside its wrapped method while the other has asked for
\* the lock
C9_Witness ==
    \E t1, t2 \in Threads :
       /\ t1 # t2
       /\ thread[t1].pc = "body"
       /\ thread[t2].pc = "acquire"
       /\ envelope.lock.owner = <<t1>>

\* C10: while a pool-submitted index_urls is mutating the wrapped index (it
\* is inside index_files) no READ or WRITE body of a client thread runs and
\* no other pool-submitted index_urls is mutating
C10_PoolWriteExcluded ==
    \A f \in Futures :
       envelope.task[f] = "index_files" =>
          /\ \A t \in Threads : thread[t].pc # "body"
          /\ \A g \in Futures : envelope.task[g] = "index_files" => g = f

\* C11: a READ call runs its wrapped method only after every index_urls
\* submission whose call had returned when the READ was invoked has
\* completed
C11_ReadAfterSubmittedWrites ==
    \A t \in Threads :
       thread[t].pc = "body" =>
          \A f \in hist.awaited[t] : envelope.task[f] \in {"done", "raised"}

\* C12: a READ call invoked after a pool task has failed, its exception not
\* yet raised to any caller, does not get past _futures_wait: the exception
\* is raised to its caller
C12_TaskErrorReraised ==
    \A t \in Threads :
       thread[t].pc \in {"futures_reset", "acquire", "body", "release"} =>
          hist.errors[t] = {}

\* C13: after a collection write has returned, the names of the
\* collection's name -> node docid map are exactly the names live in some
\* leaf below it and its docid -> name map is the inverse, so a deleted
\* document is found in neither
C13_NameMapsReplaced ==
    WriteReturned("R") =>
      LET m == node["R"].name_to_docid_map
          inv == node["R"].docid_to_name_map
      IN /\ DOMAIN m = LiveNames(node, LeavesBelow(node, "R"))
         /\ DOMAIN inv = Range(m)
         /\ \A name \in DOMAIN m : inv[m[name]] = name

\* the aggregated state of a collection
Aggregated(C) == <<C.N, C.df_map, C.name_to_docid_map, C.docid_to_name_map>>

\* C14: a write whose reconciliation fails because a shard does not report
\* its local stats leaves the collection's aggregated N, df map and
\* name <-> node docid maps as they were (the wrapped method does not touch
\* them, so as they were before the call)
C14_FailedReconcileKeepsAggregates ==
    [][clast'.outcome = "StatsError" =>
          Aggregated(node'["R"]) = Aggregated(node["R"])]_vars

\* the global statistics the leaves have been given
LeafGlobals(st) == [l \in Leaves |-> <<st[l].global_N, st[l].global_df_map>>]

\* C15: the collection M, constructed with root=False, never broadcasts from
\* its own trigger: a call of M.add_shards, which runs only M's trigger,
\* leaves the global N and df map of every leaf as they were, also once M is
\* a shard of the root
C15_NonRootNeverBroadcasts ==
    [][(clast'.op = "add_shards" /\ clast'.target = "M") =>
          LeafGlobals(node') = LeafGlobals(node)]_vars

(***************************************************************************)
(* Claims about queries and scoring on the leaf.                           *)
(***************************************************************************)
\* the number a tfidf score stands for: the total coefficient of ln(n / d)
\* for every quotient n / d, over the document length
ScoreValue(score) ==
    LET quotients == {<<h[3], h[4]>> : h \in score.sum}
    IN [ln   |-> [r \in quotients |->
                    LET hs == {h \in score.sum : <<h[3], h[4]>> = r}
                    IN SumOver([h \in hs |-> h[2]], hs)],
        over |-> score.over]

\* a consumed query result with its scores as numbers: the outcome and, per
\* docid, the name and the score
QueryValue(scorer, r) ==
    <<r.outcome,
      [d \in DOMAIN r.hits |->
          <<r.hits[d][1],
            IF scorer = "tfidf" THEN ScoreValue(r.hits[d][2]) ELSE r.hits[d][2]>>]>>

\* C16: under both scorers, query(q) with a string q gives the result of
\* query(v) for v the term vector of q built with the index's stoplist and
\* lowercase configuration
C16_StringQueryUsesConfig ==
    \A q \in Queries, sc \in Scorers :
       LET L == LeafSetQueryScorer(leaf, sc)
       IN QueryValue(sc, LeafQuery(L, q)) =
          QueryValue(sc, LeafQueryVec(L, TermVec(q, L.config.stoplist, L.config.lowercase)))

\* most occurrences of one term in a query vector
MaxQueryTf == 2

\* query vectors over one or two terms
QueryVecs ==
    UNION {[S -> 1..MaxQueryTf] : S \in {T \in SUBSET Tokens : Cardinality(T) \in {1, 2}}}

\* the frequency of query term t in the stored vector of document d, looked
\* up as postings_list looks a term up
DocFreqOfTerm(L, d, t) ==
    Get(L.doc_vectors[d], IF L.config.lowercase THEN Lower(t) ELSE t, 0)

\* C17: under simple_count, query(v) returns exactly the live documents that
\* hold some term of v, each with the sum over the terms of v of the
\* document's frequency for the term, whatever the frequencies in v
C17_SimpleCountScores ==
    \A v \in QueryVecs :
       LET L == LeafSetQueryScorer(leaf, "simple_count")
           r == LeafQueryVec(L, v)
           docs == {d \in LiveDocids(L) : \E t \in DOMAIN v : DocFreqOfTerm(L, d, t) > 0}
       IN /\ r.outcome = "ok"
          /\ DOMAIN r.hits = docs
          /\ \A d \in docs :
                r.hits[d] = <<L.docid_to_name_map[d],
                              SumOver([t \in DOMAIN v |-> DocFreqOfTerm(L, d, t)], DOMAIN v)>>
          /\ r = LeafQueryVec(L, [t \in DOMAIN v |-> 1])

\* a document was deleted, and a live document holds 'hello' twice and
\* scores 2 for the query vector {hello: 2}
C17_Witness ==
    /\ leaf.next_docid > leaf.N
    /\ \E d \in LiveDocids(leaf) :
          /\ Get(leaf.doc_vectors[d], "hello", 0) = 2
          /\ LeafQueryVec(LeafSetQueryScorer(leaf, "simple_count"),
                          [t \in {"hello"} |-> 2]).hits[d][2] = 2

\* C18: in every reachable state of the leaf, the document frequency it
\* supplies to the scorer is at least 1 for every term
C18_DocFreqAtLeastOne ==
    \A t \in Terms : GetDocFreq(leaf, t) >= 1

\* a query result with no hits
NoHits == [outcome |-> "ok", hits |-> EmptyMap]

\* C19: on a leaf with no live documents, never populated or emptied by
\* deletions, query returns no hits under both scorers, for strings and for
\* query vectors; and the tfidf scorer given N = 0 returns no hits whatever
\* the df and doclen callbacks would answer (here: values it would fail on)
C19_EmptyIndexNoHits ==
    leaf.N = 0 =>
       /\ \A sc \in Scorers :
             /\ \A q \in Queries : LeafQuery(LeafSetQueryScorer(leaf, sc), q) = NoHits
             /\ \A v \in QueryVecs : LeafQueryVec(LeafSetQueryScorer(leaf, sc), v) = NoHits
       /\ \A v \in QueryVecs :
             TFIDFScoreDocs(v, [t \in DOMAIN v |-> PostingsList(leaf, t)], 0,
                            [t \in DOMAIN v |-> 0], [d \in 0..MaxDocid |-> [sqrt |-> 0]])
                = NoHits

\* the leaf was emptied by deletions and still holds a df entry of 0, on
\* which the scorer would fail if it asked
C19_Witness ==
    /\ leaf.N = 0
    /\ leaf.next_docid > 0
    /\ \E t \in DOMAIN leaf.df_map : leaf.df_map[t] = 0
    /\ LeafQuery(LeafSetQueryScorer(leaf, "tfidf"), <<"hello">>) = NoHits

\* the corpus size the scoring of leaf L is to use: the global N once
\* set_global_N has stored one, the local N otherwise
CorpusN(L) == IF L.global_N # <<>> THEN L.global_N[1] ELSE L.N

\* the document frequency the scoring of leaf L is to use for term t: from
\* the global df map once a non-empty one is stored, from the local one
\* otherwise; a term the map lacks reports 1
CorpusDf(L, t) ==
    IF L.global_df_map # <<>> /\ L.global_df_map[1] # EmptyMap
    THEN Get(L.global_df_map[1], t, 1)
    ELSE Get(L.df_map, t, 1)

\* (sum over query terms t with a posting (d, f) of q[t] * f * ln(N / df(t)))
\* / doclen(d), as the total coefficient of ln(n / m) per quotient n / m in
\* lowest terms (ln(1) = 0 contributes nothing), over the document length
TfIdfCosine(L, q, d) ==
    LET f(t) == LET pl == PostingsList(L, t)
                    at == {i \in DOMAIN pl : pl[i][1] = d}
                IN SumOver([i \in at |-> pl[i][2]], at)
        ratio(t) == LET g == Gcd(CorpusN(L), CorpusDf(L, t))
                    IN <<CorpusN(L) \div g, CorpusDf(L, t) \div g>>
        matching == {t \in DOMAIN q : f(t) > 0 /\ ratio(t) # <<1, 1>>}
    IN [ln   |-> [r \in {ratio(t) : t \in matching} |->
                    LET ts == {t \in matching : ratio(t) = r}
                    IN SumOver([t \in ts |-> q[t] * f(t)], ts)],
        over |-> L.doc_len_map[d]]

\* C20: whenever a tfidf query with raw tf on a leaf of the tree gives a
\* result, it scores exactly the documents with a posting for a query term
\* (none when N is 0), each with (sum over its matching query terms of
\* q[t] * f * ln(N / df(t))) / doclen(d), N and df being the global values
\* when set on the leaf and the local ones otherwise
C20_TfIdfUsesGlobalsWhenSet ==
    \A l \in Leaves, q \in QueryVecs :
       LET L == LeafSetQueryScorer(node[l], "tfidf")
           r == LeafQueryVec(L, q)
           matched == IF CorpusN(L) = 0 THEN {}
                      ELSE {d \in DOMAIN L.doc_vectors :
                              \E t \in DOMAIN q :
                                 \E i \in DOMAIN PostingsList(L, t) :
                                    PostingsList(L, t)[i][1] = d}
       IN r.outcome = "ok" =>
             /\ DOMAIN r.hits = matched
             /\ \A d \in matched : ScoreValue(r.hits[d][2]) = TfIdfCosine(L, q, d)

(***************************************************************************)
(* Claims about save / load.                                               *)
(***************************************************************************)
\* every read operation of a leaf, query with either scorer attached
AllReads(L) ==
    [ postings      |-> [t \in Tokens |-> PostingsList(L, t)],
      docids        |-> [ts \in Queries |-> DocidsWithTerms(L, ts)],
      docnames      |-> [ts \in Queries |-> DocnamesWithTerms(L, ts)],
      name_to_docid |-> [n \in Names |-> NameToDocid(L, n)],
      docid_to_name |-> [d \in 0..MaxDocid |-> DocidToName(L, d)],
      local_N       |-> L.N,
      local_df_map  |-> L.df_map,
      query         |-> [sc \in Scorers |->
                           [ string |-> [q \in Queries |->
                                           LeafQuery(LeafSetQueryScorer(L, sc), q)],
                             vector |-> [v \in QueryVecs |->
                                           LeafQueryVec(LeafSetQueryScorer(L, sc), v)] ]] ]

ProducedIds(st, c) ==
    Range(st[c].name_to_docid_map)
       \cup UNION {PostingDocids(NodePostingsList(st, c, t)) : t \in Terms}

\* the (leaf, docid) pairs of the documents the leaves hold
LiveDocs(st) == {<<l, d>> : l \in Leaves, d \in 0..MaxCollDocs} \cap
                UNION {{l} \X LiveDocids(st[l]) : l \in Leaves}

\* the (leaf, docid) pair that the docid of node n denotes, following the
\* leading shard ids down the tree
RECURSIVE OwningLeaf(_, _, _)
OwningLeaf(st, n, docid) ==
    IF IsLeaf(st, n) THEN <<n, docid>>
    ELSE LET part == PartitionDocid(docid)
         IN OwningLeaf(st, st[n].shards[part.shard_id + 1], part.remote_docid)

\* C22: every node docid g that the root hands out splits into the index of
\* a shard and a docid of that shard (a live docid of a leaf, a node docid
\* handed out by a collection), re-encoding the two gives g, and
\* del_docids(g) returns having removed the document g names from its leaf,
\* every other document of every leaf staying
C22_NodeDocidsSplitAndDelete ==
    \A g \in ProducedIds(node, "R") :
       LET part == PartitionDocid(g)
           shards == node["R"].shards
       IN /\ part.shard_id + 1 \in DOMAIN shards
          /\ LET shard == shards[part.shard_id + 1]
                 r == NodeDelDocids(node, "R", <<g>>)
             IN /\ MakeNodeDocid(part.shard_id, IdSeq(node, shard, part.remote_docid)) = g
                /\ IF IsLeaf(node, shard)
                   THEN part.remote_docid \in LiveDocids(node[shard])
                   ELSE part.remote_docid \in ProducedIds(node, shard)
                /\ OwningLeaf(node, "R", g) \in LiveDocs(node)
                /\ g \in DOMAIN node["R"].docid_to_name_map =>
                      node["R"].docid_to_name_map[g] =
                         DocidToName(node[OwningLeaf(node, "R", g)[1]],
                                     OwningLeaf(node, "R", g)[2]).name
                /\ r.outcome = "ok"
                /\ LiveDocs(r.st) = LiveDocs(node) \ {OwningLeaf(node, "R", g)}

\* the shard function in effect for collection C: the one the caller set
\* with set_shard_func, the default salted hash before that
ShardFuncInEffect(C, shard_key) ==
    IF C._shard_func # <<>> THEN C._shard_func[1][shard_key]
    ELSE DefaultShardFunc(C, shard_key)

\* the names of the documents held by the leaves below node n
NamesBelow(st, n) == LiveNames(st, LeavesBelow(st, n))

\* C23: every document that a write through the root adds is held by
\* exactly one leaf, below the shard of each collection on its way whose
\* index is given by the shard function in effect at that collection for the
\* document's name when the write was issued
C23_RoutedByShardFuncInEffect ==
    [][clast'.op = "index" =>
         \A n \in NamesBelow(node', "R") \ NamesBelow(node, "R") :
            /\ Cardinality({l \in Leaves : n \in DOMAIN node'[l].name_to_docid_map}) = 1
            /\ \A c \in Collections :
                  n \in NamesBelow(node', c) =>
                     n \in NamesBelow(node',
                                      node[c].shards[ShardFuncInEffect(node[c], n) + 1])]_vars

\* C24: whenever a call of add_shards, load_stoplist, set_config or
\* update_config has returned, every shard of every collection, and every
\* index below it, has the collection's lowercase and stoplist configuration
C24_ShardsShareConfig ==
    \A c \in Collections :
       \A i \in DOMAIN node[c].shards :
          \A n \in {node[c].shards[i]} \cup LeavesBelow(node, node[c].shards[i]) :
             /\ node[n].config.lowercase = node[c].config.lowercase
             /\ node[n].config.stoplist = node[c].config.stoplist

\* the root was configured away from the defaults; it holds M, attached with
\* its own leaf, and a leaf attached after the root was configured
C24_Witness ==
    /\ node["R"].config.lowercase = FALSE
    /\ node["R"].config.stoplist = {"stop"}
    /\ node["R"].shards = <<"M", "L2">>
    /\ node["M"].shards = <<"L1">>
    /\ clast.op = "add_shards" /\ clast.target = "R"

\* C25: a call of config, set_config or update_config that was given a key
\* other than lowercase and stoplist has signalled an error and has left the
\* configuration of every index as it was
C25_UnknownConfigKeyRejected ==
    (/\ clast.op \in {"config", "set_config", "update_config"}
     /\ clast.keys \ {"lowercase", "stoplist"} # {})
    => (clast.outcome # "ok" /\ clast.unchanged)

(***************************************************************************)
(* Claims about the reads of a leaf.                                       *)
(***************************************************************************)
\* no live document holds the term, canonicalised as the index does
NoLiveDocument(L, term) ==
    \A d \in LiveDocids(L) :
       (IF L.config.lowercase THEN Lower(term) ELSE term) \notin DOMAIN L.doc_vectors[d]

\* C26: a call of postings_list(term) leaves the term index, the df map and
\* every other map and attribute of the index as they were, and for a term
\* that no live document holds it returns the empty list
C26_PostingsListPureRead ==
    last.op = "postings_list" =>
       /\ last.unchanged
       /\ NoLiveDocument(leaf, last.term) =>
             PostingsListCall(leaf, last.term).result = <<>>

\* postings_list was called for a term whose documents were all deleted (its
\* df entry is left at 0) while another document is live
C26_Witness ==
    /\ last.op = "postings_list"
    /\ leaf.N = 1
    /\ last.term \in DOMAIN leaf.df_map /\ leaf.df_map[last.term] = 0
    /\ last.term \notin DOMAIN leaf.term_index
    /\ PostingsListCall(leaf, last.term).result = <<>>

\* the documents, as (leaf, docid) pairs, held below node n whose stored
\* vector has every one of the terms, canonicalised as their leaf does; none
\* for an empty list of terms
HoldingAll(st, n, terms) ==
    IF terms = <<>> THEN {}
    ELSE {p \in LiveDocs(st) :
            /\ p[1] \in LeavesBelow(st, n)
            /\ \A k \in DOMAIN terms :
                  (IF st[p[1]].config.lowercase THEN Lower(terms[k]) ELSE terms[k])
                     \in DOMAIN st[p[1]].doc_vectors[p[2]]}

\* docids_with_terms(terms) on node n
NodeDocidsWithTerms(st, n, terms) ==
    IF IsLeaf(st, n) THEN DocidsWithTerms(st[n], terms)
    ELSE CollDocidsWithTerms(st, n, terms)

\* docnames_with_terms(*terms) on node n, consumed to a list
NodeDocnamesWithTerms(st, n, terms) ==
    IF IsLeaf(st, n) THEN DocnamesWithTerms(st[n], terms)
    ELSE CollDocnamesWithTerms(st, n, terms)

\* C27: on every leaf and every collection, docids_with_terms(terms) is a
\* strictly increasing sequence of exactly the docids of the live documents
\* that hold every term (empty for no terms), and docnames_with_terms gives
\* the names of exactly those documents
C27_DocidsWithTermsIntersect ==
    \A n \in Leaves \cup Collections :
       \A terms \in Queries \cup {<<>>} :
          LET ids == NodeDocidsWithTerms(node, n, terms)
              names == NodeDocnamesWithTerms(node, n, terms)
              doc(k) == IF IsLeaf(node, n) THEN <<n, ids[k]>> ELSE OwningLeaf(node, n, ids[k])
          IN /\ \A k \in 1..(Len(ids) - 1) :
                   IF IsLeaf(node, n) THEN ids[k] < ids[k + 1]
                   ELSE LexLess(ids[k], ids[k + 1])
             /\ {doc(k) : k \in DOMAIN ids} = HoldingAll(node, n, terms)
             /\ names.outcome = "ok"
             /\ names.names =
                   [k \in DOMAIN ids |-> node[doc(k)[1]].docid_to_name_map[doc(k)[2]]]

(***************************************************************************)
(* The order of query results.  A score is the float the scorer computes,  *)
(* kept as a quotient num / den: a simple_count score is its integer; a    *)
(* tfidf score is its sum of hits with ln in ten-thousandths over the      *)
(* document length with sqrt in thousandths.                               *)
(***************************************************************************)
\* math.log(n) in ten-thousandths, additive over the prime factors of n
LnOf(n) ==
    CASE n = 1 -> 0
      [] n = 2 -> 6931
      [] n = 3 -> 10986
      [] n = 4 -> 13862
      [] n = 5 -> 16094
      [] n = 6 -> 17917
      [] n = 7 -> 19459
      [] n = 8 -> 20793
      [] n = 9 -> 21972

\* math.sqrt(k) in thousandths
SqrtOf(k) ==
    CASE k = 1 -> 1000
      [] k = 2 -> 1414
      [] k = 3 -> 1732
      [] k = 4 -> 2000
      [] k = 5 -> 2236
      [] k = 6 -> 2449
      [] k = 7 -> 2646
      [] k = 8 -> 2828
      [] k = 9 -> 3000

\* the float a scorer's score is: doc_hit_map[docid] of simple_count, and
\* weight / doc_len of tfidf with log(N / df) = log(N) - log(df)
ScoreNumber(scorer, score) ==
    IF scorer = "tfidf"
    THEN [num |-> SumOver([h \in score.sum |-> h[2] * (LnOf(h[3]) - LnOf(h[4]))],
                          score.sum),
          den |-> SqrtOf(score.over.sqrt)]
    ELSE [num |-> score, den |-> 1000]

\* a >= b on scores
ScoreGE(a, b) == a.num * b.den >= b.num * a.den

\* sorted(items, key=operator.itemgetter(1), reverse=True) and
\* list.sort(key=operator.itemgetter(1), reverse=True): by score descending,
\* items of equal score in their original order
RECURSIVE SortByScore(_)
SortByScore(items) ==
    IF items = <<>> THEN <<>>
    ELSE LET s == SortByScore(SubSeq(items, 1, Len(items) - 1))
             x == items[Len(items)]
             k == Cardinality({i \in DOMAIN s : ScoreGE(s[i].score, x.score)})
         IN SubSeq(s, 1, k) \o <<x>> \o SubSeq(s, k + 1, Len(s))

\* MapSimIndex._query, consumed to a list of (docname, score): the scorer
\* sorts the items of doc_hit_map, a dict of small ints that iterates in
\* increasing docid order, and _query maps each docid to its name in turn
LeafQueryList(L, query_vec) ==
    LET r == LeafQueryVec(L, query_vec)
        ids == Sorted(DOMAIN r.hits)
    IN [outcome |-> r.outcome,
        results |-> SortByScore(
            [k \in DOMAIN ids |->
                [name  |-> r.hits[ids[k]][1],
                 score |-> ScoreNumber(L.query_scorer, r.hits[ids[k]][2])]])]

MergeUnsorted(results) == results

\* SimIndexCollection._query, last lines: results.sort(key=..., reverse=True)
MergeResults(results) == SortByScore(results)

\* query(query_vec) on a node, as the list it returns.
\* SimIndexCollection._query extends its list by every shard's results in
\* shard order and sorts it
RECURSIVE NodeQueryList(_, _, _)
NodeQueryList(st, n, query_vec) ==
    IF IsLeaf(st, n) THEN LeafQueryList(st[n], query_vec)
    ELSE LET shards == st[n].shards
             F[i \in 0..Len(shards)] ==
                 IF i = 0 THEN [outcome |-> "ok", results |-> <<>>]
                 ELSE IF F[i - 1].outcome # "ok" THEN F[i - 1]
                 ELSE LET r == NodeQueryList(st, shards[i], query_vec)
                      IN IF r.outcome # "ok" THEN [outcome |-> r.outcome, results |-> <<>>]
                         ELSE [outcome |-> "ok",
                               results |-> F[i - 1].results \o r.results]
         IN [outcome |-> F[Len(shards)].outcome,
             results |-> MergeResults(F[Len(shards)].results)]

\* the tree with every leaf scoring by scorer sc
WithScorer(st, sc) ==
    [m \in DOMAIN st |-> IF IsLeaf(st, m) THEN LeafSetQueryScorer(st[m], sc) ELSE st[m]]

\* the query vectors of the order check: one stored term once, or two stored
\* terms of which at most one is repeated
OrderQueryVecs ==
    {v \in QueryVecs :
        /\ DOMAIN v \subseteq {Lower(t) : t \in Tokens}
        /\ \E t \in DOMAIN v : v[t] = 1
        /\ \A t \in DOMAIN v : v[t] = 1 \/ Cardinality(DOMAIN v) = 2}

\* C28: under both scorers, the list that query returns on a leaf and on a
\* collection never has a higher score after a lower one and never names a
\* document twice
C28_QueryOrderedByScore ==
    \A sc \in Scorers : \A st \in {WithScorer(node, sc)} :
    \A n \in Leaves \cup Collections, v \in OrderQueryVecs :
       \A r \in {NodeQueryList(st, n, v)} :
          r.outcome = "ok" =>
             /\ \A k \in 1..(Len(r.results) - 1) :
                   ScoreGE(r.results[k].score, r.results[k + 1].score)
             /\ \A i, j \in DOMAIN r.results :
                   r.results[i].name = r.results[j].name => i = j

\* a tfidf query on the root returns two documents of different scores, the
\* higher one from the second shard, the lower one from the first
C28_Witness ==
    /\ Len(node["R"].shards) = 2
    /\ \E v \in OrderQueryVecs :
          \E r \in {NodeQueryList(WithScorer(node, "tfidf"), "R", v)} :
             /\ r.outcome = "ok"
             /\ Len(r.results) = 2
             /\ ~ScoreGE(r.results[2].score, r.results[1].score)
             /\ r.results[1].name \in NamesBelow(node, node["R"].shards[2])
             /\ r.results[2].name \in NamesBelow(node, node["R"].shards[1])

\* the stored maps of a leaf and its N
StoredMaps(L) ==
    [name_to_docid_map |-> L.name_to_docid_map,
     docid_to_name_map |-> L.docid_to_name_map,
     term_index        |-> L.term_index,
     doc_vectors       |-> L.doc_vectors,
     df_map            |-> L.df_map,
     doc_len_map       |-> L.doc_len_map,
     N                 |-> L.N]

\* the term vector of a body that is one term: that term once, or nothing
\* when the stoplist holds it
SingleTermVector(v) ==
    /\ Cardinality(DOMAIN v) <= 1
    /\ \A t \in DOMAIN v : v[t] = 1

\* C29: when a document whose body is a single term is indexed into a leaf
\* whose stored maps are all empty and is then deleted, every stored map is
\* empty again and N is 0
C29_InsertDeleteRestoresEmpty ==
    [][(/\ snap.phase = "added"
        /\ snap'.phase = "removed"
        /\ StoredMaps(snap.pre[1]) = StoredMaps(NewLeaf)
        /\ SingleTermVector(leaf.doc_vectors[leaf.name_to_docid_map[snap.name]]))
          => StoredMaps(leaf') = StoredMaps(NewLeaf)]_vars

\* C30: the docids a leaf has given to its documents, in the order it gave
\* them, are strictly increasing: each is greater than all given before, so
\* none is given twice, whatever was deleted in between
C30_DocidsStrictlyIncrease ==
    \A i, j \in DOMAIN hist.assigned :
       i < j => hist.assigned[i] < hist.assigned[j]

\* a document was indexed after the first document the leaf ever indexed had
\* been deleted
C30_Witness ==
    /\ last.op = "index_string_buffers"
    /\ Len(hist.assigned) >= 2
    /\ hist.assigned[1] \notin DOMAIN leaf.doc_vectors
    /\ hist.assigned[Len(hist.assigned)] \in DOMAIN leaf.doc_vectors

(***************************************************************************)
(* sim_server.py / remote_sim_index.py: one MemorySimIndex behind the      *)
(* envelope, served by SimIndexService and reached directly or through a   *)
(* RemoteSimIndex proxy.  The server handles one request at a time; the    *)
(* envelope's pool runs index_urls beside it.  A method string is kept as  *)
(* the sequence of its '.'-separated pieces.                               *)
(***************************************************************************)
\* SimIndexService.PREFIX
PREFIX == "sim_index"

\* SimIndexService.EXPORTED_METHODS
EXPORTED_METHODS ==
    {"index_urls", "index_string_buffers", "del_docids", "docid_to_name",
     "name_to_docid", "postings_list", "docids_with_terms", "docnames_with_terms",
     "set_query_scorer", "query", "set_global_N", "get_local_N",
     "set_global_df_map", "get_local_df_map", "get_name_to_docid_map", "config",
     "set_config", "update_config"}

\* the attributes a MemorySimIndex answers getattr for, among the names tried
IndexMethods ==
    READ_METHODS \cup WRITE_METHODS \cup NONBLOCKING_METHODS \cup {"save", "_query"}

\* the names a client tries on the proxy
ProxyNames == IndexMethods \cup {"bogus"}

\* the method strings a client sends to the dispatcher: prefixed names, bare
\* names, names under another prefix or under a longer path, the bare prefix
RawMethods ==
    {<<PREFIX, m>> : m \in ProxyNames}
       \cup {<<m>> : m \in {"query", "del_docids", "index_urls", PREFIX}}
       \cup {<<"other", m>> : m \in {"query", "del_docids"}}
       \cup {<<PREFIX, "x", "del_docids">>, <<"sim_indexx", "del_docids">>}

StartsWithAnyPrefix(method) == Len(method) >= 2

\* method.startswith(self.PREFIX + '.')
StartsWithPrefix(method) == Len(method) >= 2 /\ method[1] = PREFIX

\* method.partition('.')[2], as its pieces
Partition2(method) == Tail(method)

\* method_name in self.EXPORTED_METHODS: no exported name holds a '.'
IsExported(method_name) ==
    Len(method_name) = 1 /\ method_name[1] \in EXPORTED_METHODS

\* the arguments tried with each method of the index
ServeParams(name, L) ==
    CASE name = "index_string_buffers" ->
            {b \in FreshBatches(L) : Len(b) = 1 /\ b[1][2] = <<"Hello", "stop">>}
      [] name = "del_docids"          -> {<<d>> : d \in 0..(MaxDocid - 1)}
      [] name = "set_query_scorer"    -> {"simple_count"}
      [] name = "set_global_N"        -> {2}
      [] name = "set_global_df_map"   -> {[hello |-> 2]}
      [] name = "set_config"          -> {<<"lowercase", TRUE>>}
      [] name = "update_config"       -> {[lowercase |-> TRUE]}
      [] name = "name_to_docid"       -> Names
      [] name = "docid_to_name"       -> 0..(MaxDocid - 1)
      [] name = "postings_list"       -> {"hello"}
      [] name = "config"              -> {"lowercase", "verbose"}
      [] name \in {"docids_with_terms", "docnames_with_terms", "query"} -> {<<"hello">>}
      [] OTHER                        -> {<<>>}

\* func(*params) on the MemorySimIndex for the exported methods that the
\* envelope runs under its lock: the index afterwards and how the call ended
IndexCall(L, name, params) ==
    CASE name = "index_string_buffers" ->
            [idx |-> IndexStringBuffers(L, params), outcome |-> "ok"]
      [] name = "del_docids"        -> DelDocids(L, params)
      [] name = "set_query_scorer"  -> [idx |-> LeafSetQueryScorer(L, params), outcome |-> "ok"]
      [] name = "set_global_N"      -> [idx |-> LeafSetGlobalN(L, params), outcome |-> "ok"]
      [] name = "set_global_df_map" -> [idx |-> LeafSetGlobalDfMap(L, params), outcome |-> "ok"]
      [] name = "set_config"        ->
            [idx |-> LeafSetConfigOp(L, params[1], params[2]), outcome |-> "ok"]
      [] name = "update_config"     ->
            [idx |-> [L EXCEPT !.config = UpdateConfig(@, params)], outcome |-> "ok"]
      [] name = "name_to_docid"     -> [idx |-> L, outcome |-> NameToDocid(L, params).outcome]
      [] name = "docid_to_name"     -> [idx |-> L, outcome |-> DocidToName(L, params).outcome]
      [] name = "docnames_with_terms" ->
            [idx |-> L, outcome |-> DocnamesWithTerms(L, params).outcome]
      [] name = "query"             -> [idx |-> L, outcome |-> LeafQuery(L, params).outcome]
      [] name = "config"            -> [idx |-> L, outcome |-> Config(L, params).outcome]
      [] OTHER                      -> [idx |-> L, outcome |-> "ok"]

\* ConcurrentSimIndex.__getattr__(name) and the call of what it returns, for
\* a caller that is alone at the envelope: S is the wrapped index and the
\* envelope.  A READ finds every future finished (futures.wait has returned)
EnvelopeCall(S, name, params) ==
    IF name \notin IndexMethods
    THEN [idx |-> S.idx, env |-> S.env, outcome |-> "AttributeError", invoked |-> FALSE]
    ELSE IF name \in READ_METHODS
    THEN IF \E f \in S.env.futures : S.env.task[f] = "raised"
         THEN [idx |-> S.idx, env |-> S.env, outcome |-> "raised", invoked |-> FALSE]
         ELSE LET r == IndexCall(S.idx, name, params)
              IN [idx |-> r.idx,
                  env |-> [S.env EXCEPT
                             !.futures = {},
                             !.task = [f \in Futures |->
                                         IF f \in S.env.futures THEN "none" ELSE @[f]]],
                  outcome |-> r.outcome, invoked |-> TRUE]
    ELSE IF name \in WRITE_METHODS
    THEN LET r == IndexCall(S.idx, name, params)
         IN [idx |-> r.idx, env |-> S.env, outcome |-> r.outcome, invoked |-> TRUE]
    ELSE IF name \in NONBLOCKING_METHODS
    THEN LET f == CHOOSE g \in Futures : S.env.task[g] = "none"
         IN [idx |-> S.idx,
             env |-> [S.env EXCEPT !.task[f] = "pending", !.futures = @ \cup {f}],
             outcome |-> "ok", invoked |-> TRUE]
    ELSE [idx |-> S.idx, env |-> S.env, outcome |-> "Unsupported method", invoked |-> FALSE]

\* SimIndexService._dispatch(method, params)
Dispatch(S, method, params) ==
    IF ~StartsWithPrefix(method)
    THEN [idx |-> S.idx, env |-> S.env, outcome |-> "not supported: bad prefix",
          invoked |-> FALSE]
    ELSE IF ~IsExported(Partition2(method))
    THEN [idx |-> S.idx, env |-> S.env, outcome |-> "not supported", invoked |-> FALSE]
    ELSE EnvelopeCall(S, Partition2(method)[1], params)

\* RemoteSimIndex.__getattr__(name) and the call of the server method
\* PREFIX + '.' + name that it returns
ProxyCall(S, name, params) ==
    IF name \in EXPORTED_METHODS THEN Dispatch(S, <<PREFIX, name>>, params)
    ELSE [idx |-> S.idx, env |-> S.env, outcome |-> "Unsupported method",
          invoked |-> FALSE]

\* most index_urls calls in the pool of the served index at one time
MaxServed == 1

\* the envelope can take the request now: an index_urls stays within the
\* bound on the pool, a READ has nothing left to wait for
Takes(S, name) ==
    /\ name \in NONBLOCKING_METHODS =>
          Cardinality({g \in Futures : S.env.task[g] # "none"}) < MaxServed
    /\ name \in READ_METHODS =>
          \A f \in S.env.futures : S.env.task[f] \in {"done", "raised"}

\* the record of a served request
Served(via, method, r, S) ==
    [op |-> "request", via |-> via, method |-> method, outcome |-> r.outcome,
     invoked |-> r.invoked, unchanged |-> (r.idx = S.idx /\ r.env = S.env)]

ServeInit ==
    /\ leaf = NewLeaf
    /\ envelope = NewEnvelope
    /\ last = [op |-> "init", via |-> "", method |-> <<>>, outcome |-> "ok",
               invoked |-> FALSE, unchanged |-> TRUE]
    /\ snap = NoSnap
    /\ node = EmptyMap
    /\ ref = NewLeaf
    /\ clast = CollCall("init", "R", "ok")
    /\ thread = IdleThreads
    /\ hist = NoHist
    /\ output = NoFile

\* a client calls index.name(params) on its RemoteSimIndex
ServeProxy ==
    \E name \in ProxyNames :
       LET S == [idx |-> leaf, env |-> envelope]
       IN /\ Takes(S, name)
          /\ \E params \in ServeParams(name, leaf) :
                LET r == ProxyCall(S, name, params)
                IN /\ leaf' = r.idx
                   /\ envelope' = r.env
                   /\ last' = Served("proxy", <<name>>, r, S)
          /\ UNCHANGED <<snap, node, ref, clast, thread, hist, output>>

\* a client sends a request for method straight to the server
ServeDispatch ==
    \E method \in RawMethods :
       LET S == [idx |-> leaf, env |-> envelope]
           name == method[Len(method)]
       IN /\ Takes(S, name)
          /\ \E params \in ServeParams(name, leaf) :
                LET r == Dispatch(S, method, params)
                IN /\ leaf' = r.idx
                   /\ envelope' = r.env
                   /\ last' = Served("dispatcher", method, r, S)
          /\ UNCHANGED <<snap, node, ref, clast, thread, hist, output>>

\* a worker of the pool runs a submitted index_urls to its end: the pages
\* are indexed, or a fetch fails
ServePoolTask ==
    \E f \in Futures :
       /\ envelope.task[f] = "pending"
       /\ \/ \E b \in ServeParams("index_string_buffers", leaf) :
                /\ leaf' = IndexFiles(leaf, b)
                /\ envelope' = [envelope EXCEPT !.task[f] = "done"]
          \/ /\ leaf' = leaf
             /\ envelope' = [envelope EXCEPT !.task[f] = "raised"]
       /\ last' = [last EXCEPT !.op = "task"]
       /\ UNCHANGED <<snap, node, ref, clast, thread, hist, output>>

ServeNext == ServeProxy \/ ServeDispatch \/ ServePoolTask

SpecServe == ServeInit /\ [][ServeNext]_vars

\* the request names a method of the whitelist, with the namespace prefix
\* when it was sent to the dispatcher
Whitelisted(via, method) ==
    IF via = "proxy" THEN method[1] \in EXPORTED_METHODS
    ELSE \E m \in EXPORTED_METHODS : method = <<PREFIX, m>>

\* C31: a request through the proxy or to the dispatcher for a method
\* outside the whitelist, or to the dispatcher for a name without the
\* prefix, ends in the unsupported-method error with nothing invoked on the
\* index and the index and its envelope unchanged; and every whitelisted
\* method is a READ, WRITE or NONBLOCKING method of the envelope, so that no
\* whitelisted request is turned down as unsupported
C31_OnlyWhitelistServed ==
    /\ EXPORTED_METHODS \subseteq READ_METHODS \cup WRITE_METHODS \cup NONBLOCKING_METHODS
    /\ last.op = "request" =>
          IF Whitelisted(last.via, last.method)
          THEN last.outcome \notin {"Unsupported method", "not supported",
                                    "not supported: bad prefix", "AttributeError"}
          ELSE /\ last.outcome \in {"Unsupported method", "not supported",
                                     "not supported: bad prefix"}
               /\ ~last.invoked
               /\ last.unchanged

\* the dispatcher turned down del_docids under a foreign prefix while the
\* index held a document that the call would have deleted
C31_Witness ==
    /\ last.op = "request"
    /\ last.via = "dispatcher"
    /\ last.method = <<"other", "del_docids">>
    /\ last.outcome = "not supported: bad prefix"
    /\ leaf.N = 1 /\ 0 \in DOMAIN leaf.doc_vectors

(***************************************************************************)
(* The update trigger of the root collection R, step by step.  clast is    *)
(* the call in progress: the stack of decorated methods that have been     *)
(* entered, each at "wrapper" (before self._dirty = True), "method" (in    *)
(* its body), "dispatch" (in the loop over the shards) or "returned" (body *)
(* over, wrapper not); the shards still to be called; and, for the claims, *)
(* how often update_node_stats has run in this call, how many shard calls  *)
(* were issued, and how many had been when it last ran.                    *)
(***************************************************************************)
TrigIdle ==
    [op |-> "init", target |-> "R", outcome |-> "ok", stack |-> <<>>, args |-> <<>>,
     pending |-> <<>>, runs |-> 0, issued |-> 0, issued_at_run |-> 0, nested |-> FALSE]

\* the batches a client writes: documents under names not yet indexed
TrigBatches(st) ==
    {b \in ArgLists((Names \ LiveNames(st, Leaves)) \X CollBodies) :
        \A i, j \in DOMAIN b : i # j => b[i][1] # b[j][1]}

\* the frame on top of the stack
Top == clast.stack[Len(clast.stack)]

\* the stack with its top frame at pc
TopAt(pc) == [clast.stack EXCEPT ![Len(clast.stack)].pc = pc]

NeedsUpdateAlways(C) == TRUE

\* update_trigger's wrapper: if self._dirty
NeedsUpdate(C) == C.dirty

TrigInit ==
    /\ \E hR \in Hashes :
          node = [n \in Collections \cup Leaves |->
                    IF n = "R" THEN NewCollection(TRUE, hR)
                    ELSE IF n = "M" THEN NewCollection(FALSE, SpreadHash)
                    ELSE NewLeaf]
    /\ clast = TrigIdle
    /\ ref = NewLeaf
    /\ thread = IdleThreads
    /\ envelope = NewEnvelope
    /\ hist = NoHist
    /\ output = NoFile
    /\ leaf = NewLeaf
    /\ last = NoCall
    /\ snap = NoSnap

\* add_shards on R, between two writes
TrigAddShards ==
    /\ clast.stack = <<>>
    /\ \E ss \in ArgLists(Leaves \ Attached(node)) :
          /\ \A i, j \in DOMAIN ss : i # j => ss[i] # ss[j]
          /\ "L2" \in Range(ss) => "L1" \in Attached(node)
          /\ Len(node["R"].shards) + Len(ss) <= MaxShards
          /\ node' = AddShards(node, "R", ss)
          /\ clast' = [TrigIdle EXCEPT !.op = "add_shards"]
    /\ UNCHANGED <<ref, leaf, last, snap, thread, envelope, hist, output>>

\* a client calls R.index_files or R.index_string_buffers
TrigCall ==
    /\ clast.stack = <<>>
    /\ \E method \in {"index_files", "index_string_buffers"}, b \in TrigBatches(node) :
          clast' = [TrigIdle EXCEPT !.op = "call",
                                    !.stack = <<[method |-> method, pc |-> "wrapper"]>>,
                                    !.args = b,
                                    !.nested = (method = "index_files")]
    /\ UNCHANGED <<node, ref, leaf, last, snap, thread, envelope, hist, output>>

\* wrapper: self._dirty = True, then the method
TrigWrapperEnter ==
    /\ clast.stack # <<>> /\ Top.pc = "wrapper"
    /\ node' = [node EXCEPT !["R"].dirty = TRUE]
    /\ clast' = [clast EXCEPT !.stack = TopAt("method")]
    /\ UNCHANGED <<ref, leaf, last, snap, thread, envelope, hist, output>>

\* index_files: reads the files and calls self.index_string_buffers, the
\* decorated method
TrigIndexFiles ==
    /\ clast.stack # <<>> /\ Top.pc = "method" /\ Top.method = "index_files"
    /\ clast' = [clast EXCEPT !.stack =
                    Append(TopAt("returned"),
                           [method |-> "index_string_buffers", pc |-> "wrapper"])]
    /\ UNCHANGED <<node, ref, leaf, last, snap, thread, envelope, hist, output>>

\* index_string_buffers: builds sharded_input_map; self.shard_func raises
\* out of both wrappers when there is no shard
TrigRoute ==
    /\ clast.stack # <<>> /\ Top.pc = "method" /\ Top.method = "index_string_buffers"
    /\ LET C == node["R"]
       IN IF Len(C.shards) = 0
          THEN clast' = [clast EXCEPT !.op = "returned", !.outcome = "ZeroDivisionError",
                                      !.stack = <<>>]
          ELSE clast' = [clast EXCEPT
                            !.stack = TopAt("dispatch"),
                            !.pending = SelectSeq([i \in 1..Len(C.shards) |-> i],
                                           LAMBDA i : ShardShare(C, clast.args, i) # <<>>)]
    /\ UNCHANGED <<node, ref, leaf, last, snap, thread, envelope, hist, output>>

\* the loop over sharded_input_map: one shard's index_string_buffers, or
\* the end of the loop
TrigDispatch ==
    /\ clast.stack # <<>> /\ Top.pc = "dispatch"
    /\ IF clast.pending = <<>>
       THEN /\ clast' = [clast EXCEPT !.stack = TopAt("returned")]
            /\ node' = node
       ELSE LET i == Head(clast.pending)
                r == NodeIndexStringBuffers(node, node["R"].shards[i],
                                            ShardShare(node["R"], clast.args, i))
            IN /\ node' = r.st
               /\ clast' = [clast EXCEPT !.pending = Tail(@), !.issued = @ + 1]
    /\ UNCHANGED <<ref, leaf, last, snap, thread, envelope, hist, output>>

\* wrapper, after the method: if self._dirty: update_trigger_helper() and
\* self._dirty = False; then the wrapper returns to its caller
TrigWrapperExit ==
    /\ clast.stack # <<>> /\ Top.pc = "returned"
    /\ LET rest == SubSeq(clast.stack, 1, Len(clast.stack) - 1)
           done == [clast EXCEPT !.stack = rest,
                                 !.op = IF rest = <<>> THEN "returned" ELSE @]
       IN IF NeedsUpdate(node["R"])
          THEN /\ node' = [UpdateTriggerHelper(node, "R") EXCEPT !["R"].dirty = FALSE]
               /\ clast' = [done EXCEPT !.runs = @ + 1, !.issued_at_run = clast.issued]
          ELSE /\ node' = node
               /\ clast' = done
    /\ UNCHANGED <<ref, leaf, last, snap, thread, envelope, hist, output>>

TrigNext ==
    \/ TrigAddShards
    \/ TrigCall
    \/ TrigWrapperEnter
    \/ TrigIndexFiles
    \/ TrigRoute
    \/ TrigDispatch
    \/ TrigWrapperExit

SpecTrig == TrigInit /\ [][TrigNext]_vars

\* C32: when a write on the collection has returned normally, be it
\* index_string_buffers or index_files calling it, update_node_stats (with
\* the broadcast of a root) has run exactly once in the call, it ran after
\* every shard call of the write had been issued, and the dirty flag is
\* false
C32_ReconciledOnceAtTheEnd ==
    (clast.op = "returned" /\ clast.outcome = "ok") =>
       /\ clast.runs = 1
       /\ clast.issued_at_run = clast.issued
       /\ clast.pending = <<>>
       /\ ~node["R"].dirty
       /\ node["R"].N = SumOver([i \in DOMAIN node["R"].shards |-> ShardN("R", i)],
                                DOMAIN node["R"].shards)

\* index_files returned after its index_string_buffers had called both
\* shards
C32_Witness ==
    /\ clast.op = "returned" /\ clast.outcome = "ok"
    /\ clast.nested
    /\ clast.issued = 2
    /\ node["R"].N = 2

\* C33: on a leaf the doc-length map has exactly the live docids as keys,
\* each length squared is the sum of the squared frequencies of the stored
\* vector, every docid of a postings list has a length above 0, and no
\* tfidf query divides by 0
C33_DocLenOfStoredVector ==
    /\ DOMAIN leaf.doc_len_map = DOMAIN leaf.doc_vectors
    /\ DOMAIN leaf.doc_len_map = DOMAIN leaf.docid_to_name_map
    /\ \A d \in DOMAIN leaf.doc_len_map :
          LET v == leaf.doc_vectors[d]
          IN leaf.doc_len_map[d].sqrt = SumOver([t \in DOMAIN v |-> v[t] * v[t]], DOMAIN v)
    /\ \A t \in DOMAIN leaf.term_index :
          \A k \in DOMAIN leaf.term_index[t] :
             GetDocLen(leaf, leaf.term_index[t][k][1]).sqrt > 0
    /\ \A q \in QueryVecs :
          LeafQueryVec(LeafSetQueryScorer(leaf, "tfidf"), q).outcome # "ZeroDivisionError"

\* after a deletion the leaf holds a document with a repeated term and a
\* document whose terms were all stopped, of length 0 and in no postings
\* list
C33_Witness ==
    /\ leaf.next_docid > leaf.N
    /\ \E d \in DOMAIN leaf.doc_len_map :
          /\ leaf.doc_len_map[d].sqrt = 5
          /\ \E t \in DOMAIN leaf.term_index :
                \E k \in DOMAIN leaf.term_index[t] : leaf.term_index[t][k][1] = d
    /\ \E e \in DOMAIN leaf.doc_len_map :
          /\ leaf.doc_len_map[e].sqrt = 0
          /\ leaf.doc_vectors[e] = EmptyMap

(***************************************************************************)
(* Lazily evaluated READ results.  Two threads call a MemorySimIndex       *)
(* through the envelope; a call takes the lock, runs and releases it in    *)
(* one step (the bodies exclude each other).  query and                    *)
(* docnames_with_terms return a generator over the docids found under the  *)
(* lock; each docid is looked up in the docid -> name map when the caller  *)
(* (the dispatcher's list(r), or any client) consumes the generator.       *)
(***************************************************************************)
\* a thread between calls, with the generator its last READ returned: the
\* docids still to be looked up, the names they had when the call returned,
\* and what consuming it gave
LazyIdle ==
    [pc |-> "idle", outcome |-> "ok", future |-> <<>>, docids |-> <<>>, held |-> <<>>,
     names |-> <<>>, under_lock |-> TRUE]

\* the docids a READ of the leaf finds, in the order of its result:
\* docids_with_terms for docnames_with_terms, the scorer's hits for query
LazyDocids(L, name, terms) ==
    IF name = "docnames_with_terms"
    THEN DocidsWithTerms(L, [k \in DOMAIN terms |->
                                IF L.config.lowercase THEN Lower(terms[k]) ELSE terms[k]])
    ELSE LET v == TermVecString(terms, L.config.stoplist, L.config.lowercase)
             hits == LeafQueryList([L EXCEPT !.docid_to_name_map =
                                       [d \in DOMAIN L.doc_vectors |-> d]], v)
         IN [k \in DOMAIN hits.results |-> hits.results[k].name]

\* list(r) on the generator: self.docid_to_name(docid) for each docid in turn
ConsumeNames(L, docids) ==
    IF \E k \in DOMAIN docids : docids[k] \notin DOMAIN L.docid_to_name_map
    THEN [outcome |-> "KeyError", names |-> <<>>]
    ELSE [outcome |-> "ok", names |-> [k \in DOMAIN docids |-> L.docid_to_name_map[docids[k]]]]

LazyInit ==
    /\ leaf = NewLeaf
    /\ thread = [t \in Threads |-> LazyIdle]
    /\ envelope = NewEnvelope
    /\ last = NoCall
    /\ snap = NoSnap
    /\ node = EmptyMap
    /\ ref = NewLeaf
    /\ clast = CollCall("init", "R", "ok")
    /\ hist = NoHist
    /\ output = NoFile

\* thread t calls query or docnames_with_terms through the envelope:
\* _read_decorator's wrapper returns the generator and releases the lock
LazyRead(t) ==
    /\ thread[t].pc = "idle"
    /\ RLockFree(envelope.lock, t)
    /\ \E name \in {"query", "docnames_with_terms"}, terms \in {<<"hello">>, <<"stop">>} :
          LET docids == LazyDocids(leaf, name, terms)
          IN thread' = [thread EXCEPT ![t] =
                          [LazyIdle EXCEPT !.pc = "generator",
                                           !.docids = docids,
                                           !.held = ConsumeNames(leaf, docids).names]]
    /\ UNCHANGED <<leaf, envelope, last, snap, node, ref, clast, hist, output>>

\* the caller of thread t's READ consumes the generator
LazyConsume(t) ==
    /\ thread[t].pc = "generator"
    /\ LET r == ConsumeNames(leaf, thread[t].docids)
       IN thread' = [thread EXCEPT ![t].pc = "consumed",
                                   ![t].outcome = r.outcome,
                                   ![t].names = r.names,
                                   ![t].under_lock = (envelope.lock.owner = <<t>>)]
    /\ UNCHANGED <<leaf, envelope, last, snap, node, ref, clast, hist, output>>

\* the caller is done with the result
LazyDrop(t) ==
    /\ thread[t].pc = "consumed"
    /\ thread' = [thread EXCEPT ![t] = LazyIdle]
    /\ UNCHANGED <<leaf, envelope, last, snap, node, ref, clast, hist, output>>

\* thread t calls index_string_buffers or del_docids through the envelope
LazyWrite(t) ==
    /\ thread[t].pc = "idle"
    /\ RLockFree(envelope.lock, t)
    /\ \/ \E b \in {c \in FreshBatches(leaf) : Len(c) = 1} :
             leaf' = IndexStringBuffers(leaf, b)
       \/ \E d \in DOMAIN leaf.doc_vectors : leaf' = DelDocids(leaf, <<d>>).idx
    /\ UNCHANGED <<thread, envelope, last, snap, node, ref, clast, hist, output>>

LazyNext ==
    \E t \in Threads : LazyRead(t) \/ LazyConsume(t) \/ LazyDrop(t) \/ LazyWrite(t)

SpecLazy == LazyInit /\ [][LazyNext]_vars

\* C34: the lookups made when the result of a READ is consumed happen under
\* the lock, and the consumed result is the one the index held when the
\* READ returned: it does not fail and does not differ
C34_LazyResultUnderLock ==
    \A t \in Threads :
       thread[t].pc = "consumed" =>
          /\ thread[t].under_lock
          /\ thread[t].outcome = "ok"
          /\ thread[t].names = thread[t].held

(***************************************************************************)
(* index_urls calls in flight on an envelope-wrapped collection, as the    *)
(* server builds it.  Every call is handed to the pool; a worker runs the  *)
(* collection's index_urls inside update_trigger's wrapper without the     *)
(* lock.  The wrapper's lines are separate steps:                          *)
(*    self._dirty = True; method(...); if self._dirty: helper;             *)
(*    self._dirty = False                                                  *)
(* update_trigger_helper itself is taken as one step.                      *)
(***************************************************************************)
\* a slot of the pool with no task
NoTask == [pc |-> "none", urls |-> <<>>]

\* the urls a client submits, with the pages their fetch gives: one url
\* neither indexed nor in flight
RaceUrls ==
    {b \in TrigBatches(node) :
        /\ Len(b) = 1
        /\ \A f \in Futures : \A k \in DOMAIN envelope.task[f].urls :
              envelope.task[f].urls[k][1] # b[1][1]}

\* the tasks of the pool that are in the collection's index_urls
InFlight == {f \in Futures : envelope.task[f].pc \notin {"none", "done"}}

RaceInit ==
    /\ node = AddShards([n \in Collections \cup Leaves |->
                           IF n = "R" THEN NewCollection(TRUE, SpreadHash)
                           ELSE IF n = "M" THEN NewCollection(FALSE, SpreadHash)
                           ELSE NewLeaf], "R", <<"L1", "L2">>)
    /\ envelope = [NewEnvelope EXCEPT !.task = [f \in Futures |-> NoTask]]
    /\ clast = CollCall("init", "R", "ok")
    /\ thread = IdleThreads
    /\ ref = NewLeaf
    /\ hist = NoHist
    /\ output = NoFile
    /\ leaf = NewLeaf
    /\ last = NoCall
    /\ snap = NoSnap

\* index_urls through the envelope: the collection's bound method goes to
\* the pool and the future into self._futures
RaceSubmit ==
    /\ \E f \in Futures, b \in RaceUrls :
          /\ envelope.task[f].pc = "none"
          /\ envelope' = [envelope EXCEPT !.task[f] = [pc |-> "pending", urls |-> b],
                                          !.futures = @ \cup {f}]
    /\ clast' = CollCall("index_urls", "R", "ok")
    /\ UNCHANGED <<node, thread, ref, hist, output, leaf, last, snap>>

\* a worker enters the wrapper: self._dirty = True
RaceWrapperEnter(f) ==
    /\ envelope.task[f].pc = "pending"
    /\ node' = [node EXCEPT !["R"].dirty = TRUE]
    /\ envelope' = [envelope EXCEPT !.task[f].pc = "method"]
    /\ UNCHANGED <<clast, thread, ref, hist, output, leaf, last, snap>>

\* the method: each url goes to self._shards[self.shard_func(url)], whose
\* index_urls fetches and indexes it
RaceMethod(f) ==
    /\ envelope.task[f].pc = "method"
    /\ LET C == node["R"]
           urls == envelope.task[f].urls
           F[i \in 0..Len(C.shards)] ==
              IF i = 0 THEN node
              ELSE IF ShardShare(C, urls, i) = <<>> THEN F[i - 1]
              ELSE NodeIndexUrls(F[i - 1], C.shards[i], ShardShare(C, urls, i)).st
       IN node' = F[Len(C.shards)]
    /\ envelope' = [envelope EXCEPT !.task[f].pc = "check"]
    /\ UNCHANGED <<clast, thread, ref, hist, output, leaf, last, snap>>

\* back in the wrapper: if self._dirty
RaceCheck(f) ==
    /\ envelope.task[f].pc = "check"
    /\ envelope' = [envelope EXCEPT !.task[f].pc =
                       IF NeedsUpdate(node["R"]) THEN "helper" ELSE "done"]
    /\ UNCHANGED <<node, clast, thread, ref, hist, output, leaf, last, snap>>

\* self.update_trigger_helper()
RaceHelper(f) ==
    /\ envelope.task[f].pc = "helper"
    /\ node' = UpdateTriggerHelper(node, "R")
    /\ envelope' = [envelope EXCEPT !.task[f].pc = "clear"]
    /\ UNCHANGED <<clast, thread, ref, hist, output, leaf, last, snap>>

\* self._dirty = False, and the wrapper returns
RaceClear(f) ==
    /\ envelope.task[f].pc = "clear"
    /\ node' = [node EXCEPT !["R"].dirty = FALSE]
    /\ envelope' = [envelope EXCEPT !.task[f].pc = "done"]
    /\ UNCHANGED <<clast, thread, ref, hist, output, leaf, last, snap>>

\* a READ through the envelope (get_local_N): _futures_wait waits for the
\* futures and empties the set, then the body runs under the lock
RaceRead ==
    /\ \A f \in envelope.futures : envelope.task[f].pc = "done"
    /\ envelope' = [envelope EXCEPT
                       !.futures = {},
                       !.task = [f \in Futures |->
                                   IF f \in envelope.futures THEN NoTask ELSE @[f]]]
    /\ clast' = CollCall("get_local_N", "R", "ok")
    /\ UNCHANGED <<node, thread, ref, hist, output, leaf, last, snap>>

RaceNext ==
    \/ RaceSubmit
    \/ RaceRead
    \/ \E f \in Futures :
          \/ RaceWrapperEnter(f)
          \/ RaceMethod(f)
          \/ RaceCheck(f)
          \/ RaceHelper(f)
          \/ RaceClear(f)

SpecRace == RaceInit /\ [][RaceNext]_vars

\* C35: once every index_urls call in flight has completed and a READ has
\* drained them, the collection's N and df are the sums over its shards
C35_DrainedIsReconciled ==
    (clast.op = "get_local_N" /\ InFlight = {}) =>
       LET idx == DOMAIN node["R"].shards
       IN /\ node["R"].N = SumOver([i \in idx |-> ShardN("R", i)], idx)
          /\ \A t \in Terms :
                Get(node["R"].df_map, t, 0) = SumOver([i \in idx |-> ShardDf("R", i, t)], idx)

\* C36: once _futures_wait has raised the exception of a failed task to a
\* caller, the task is no longer among the outstanding futures, so no later
\* READ finds it there and raises it again
C36_FailedTaskReportedOnce ==
    \A f \in hist.reported : f \notin envelope.futures

(***************************************************************************)
(* The envelope under fair scheduling.  The steps are those of SpecConc;   *)
(* a client calls index_urls only while the pool bound MaxFutures leaves   *)
(* a future for it.  Every step of a call in progress and of a submitted   *)
(* task is taken if it stays possible (the wrapped operations terminate,   *)
(* the pool has a free worker); a thread waiting for the lock gets it if   *)
(* the lock is free again and again.                                       *)
(***************************************************************************)
LiveGetAttr(t) ==
    /\ GetAttr(t)
    /\ thread'[t].pc = "submit" =>
          Cardinality({f \in Futures : envelope.task[f] = "none"})
             > Cardinality({u \in Threads : thread[u].pc = "submit"})

LiveNext ==
    \/ \E t \in Threads :
          \/ LiveGetAttr(t)
          \/ FuturesWait(t)
          \/ FuturesReset(t)
          \/ Acquire(t)
          \/ BodyReturns(t)
          \/ BodyRaises(t)
          \/ Release(t)
          \/ Submit(t)
          \/ FuturesAdd(t)
    \/ \E f \in Futures :
          \/ TaskIndexFiles(f)
          \/ TaskReturns(f)
          \/ TaskRaises(f)

Fairness ==
    /\ \A t \in Threads :
          /\ WF_vars(FuturesWait(t))
          /\ WF_vars(FuturesReset(t))
          /\ SF_vars(Acquire(t))
          /\ WF_vars(BodyReturns(t) \/ BodyRaises(t))
          /\ WF_vars(Release(t))
          /\ WF_vars(Submit(t))
          /\ WF_vars(FuturesAdd(t))
    /\ \A f \in Futures :
          /\ WF_vars(TaskIndexFiles(f))
          /\ WF_vars(TaskReturns(f) \/ TaskRaises(f))

SpecLive == ConcInit /\ [][LiveNext]_vars /\ Fairness

ShIdle ==
    [op |-> "init", target |-> "R", outcome |-> "ok", pc |-> "idle", args |-> <<>>,
     pending |-> <<>>, seen |-> <<>>, waited |-> <<>>, N0 |-> 0]

FuturesDoneNoWait(E) == TRUE

\* futures.wait(self._futures) of envelope E returns
FuturesDone(E) == \A f \in E.futures : E.task[f].pc \in {"done", "raised"}

\* the for loop of _futures_wait finds an exception
FuturesFailed(E) == \E f \in E.futures : E.task[f].pc = "raised"

\* the tree with the shards read so far as update_node_stats has read them
SeenTree ==
    [n \in DOMAIN node |->
        IF \E i \in DOMAIN clast.seen : node["R"].shards[i] = n
        THEN clast.seen[CHOOSE i \in DOMAIN clast.seen : node["R"].shards[i] = n]
        ELSE node[n]]

ShInit ==
    /\ node = AddShards([n \in Collections \cup Leaves |->
                           IF n = "R" THEN NewCollection(TRUE, SpreadHash)
                           ELSE IF n = "M" THEN NewCollection(FALSE, SpreadHash)
                           ELSE NewLeaf], "R", <<"L1", "L2">>)
    /\ envelope = [l \in Leaves |-> [NewEnvelope EXCEPT !.task = [f \in Futures |-> NoTask]]]
    /\ clast = ShIdle
    /\ thread = IdleThreads
    /\ ref = NewLeaf
    /\ hist = NoHist
    /\ output = NoFile
    /\ leaf = NewLeaf
    /\ last = NoCall
    /\ snap = NoSnap

\* the client calls collection.index_urls(*urls); the wrapper sets _dirty
\* and the method builds sharded_input_map
ShCall ==
    /\ clast.pc = "idle"
    /\ \E urls \in TrigBatches(node) :
          /\ \A l \in Leaves, f \in Futures :
                \A k \in DOMAIN envelope[l].task[f].urls, j \in DOMAIN urls :
                   envelope[l].task[f].urls[k][1] # urls[j][1]
          /\ clast' = [ShIdle EXCEPT
                          !.op = "call", !.pc = "dispatch", !.args = urls,
                          !.N0 = node["R"].N,
                          !.pending = SelectSeq([i \in 1..Len(node["R"].shards) |-> i],
                                         LAMBDA i : ShardShare(node["R"], urls, i) # <<>>)]
    /\ node' = [node EXCEPT !["R"].dirty = TRUE]
    /\ UNCHANGED <<envelope, thread, ref, hist, output, leaf, last, snap>>

\* the loop over sharded_input_map: the shard's index_urls wrapper submits
\* the leaf's index_urls to the shard's pool and adds the future
ShDispatch ==
    /\ clast.pc = "dispatch" /\ clast.pending # <<>>
    /\ LET i == Head(clast.pending)
           l == node["R"].shards[i]
       IN \E f \in Futures :
             /\ envelope[l].task[f].pc = "none"
             /\ envelope' = [envelope EXCEPT
                                ![l].task[f] = [pc |-> "pending",
                                                urls |-> ShardShare(node["R"], clast.args, i)],
                                ![l].futures = @ \cup {f}]
    /\ clast' = [clast EXCEPT !.pending = Tail(@)]
    /\ UNCHANGED <<node, thread, ref, hist, output, leaf, last, snap>>

\* the method has returned; update_trigger_helper begins
ShStatsBegin ==
    /\ clast.pc = "dispatch" /\ clast.pending = <<>>
    /\ clast' = [clast EXCEPT !.pc = "stats"]
    /\ UNCHANGED <<node, envelope, thread, ref, hist, output, leaf, last, snap>>

\* a worker of shard l runs the leaf's index_urls: every page is fetched
\* and indexed
ShTaskReturns(l, f) ==
    /\ envelope[l].task[f].pc = "pending"
    /\ node' = NodeIndexUrls(node, l, envelope[l].task[f].urls).st
    /\ envelope' = [envelope EXCEPT ![l].task[f].pc = "done"]
    /\ UNCHANGED <<clast, thread, ref, hist, output, leaf, last, snap>>

\* a fetch fails: the pages before it are indexed and the task raises
ShTaskRaises(l, f) ==
    /\ envelope[l].task[f].pc = "pending"
    /\ \E k \in 0..(Len(envelope[l].task[f].urls) - 1) :
          node' = NodeIndexUrls(node, l, SubSeq(envelope[l].task[f].urls, 1, k)).st
    /\ envelope' = [envelope EXCEPT ![l].task[f].pc = "raised"]
    /\ UNCHANGED <<clast, thread, ref, hist, output, leaf, last, snap>>

\* update_node_stats, one turn of its loop: shard.get_local_N() goes through
\* the shard's __getattr__, which waits for the shard's futures and raises
\* the exception of a failed one; then the stats are read under the lock
ShRead ==
    /\ clast.pc = "stats" /\ Len(clast.seen) < Len(node["R"].shards)
    /\ LET i == Len(clast.seen) + 1
           l == node["R"].shards[i]
           E == envelope[l]
       IN /\ FuturesDone(E)
          /\ IF FuturesFailed(E)
             THEN /\ node' = [node EXCEPT !["R"] =
                                 UpdateNodeStatsFails(SeenTree, "R", i, 1)["R"]]
                  /\ clast' = [clast EXCEPT !.op = "returned", !.outcome = "raised",
                                            !.pc = "idle"]
                  /\ envelope' = envelope
             ELSE /\ node' = node
                  /\ clast' = [clast EXCEPT
                                  !.seen = Append(@, node[l]),
                                  !.waited = Append(@, \A f \in E.futures :
                                                         E.task[f].pc = "done")]
                  /\ envelope' = [envelope EXCEPT
                                     ![l].futures = {},
                                     ![l].task = [f \in Futures |->
                                                    IF f \in E.futures THEN NoTask ELSE @[f]]]
    /\ UNCHANGED <<thread, ref, hist, output, leaf, last, snap>>

\* the rest of update_node_stats (the name maps), the broadcast of the
\* root and the end of the wrapper
ShFinish ==
    /\ clast.pc = "stats" /\ Len(clast.seen) = Len(node["R"].shards)
    /\ LET R == UpdateNodeStats(SeenTree, "R")["R"]
       IN node' = BroadcastNodeStats([node EXCEPT !["R"] = [R EXCEPT !.dirty = FALSE]], "R")
    /\ clast' = [clast EXCEPT !.op = "returned", !.outcome = "ok", !.pc = "idle"]
    /\ UNCHANGED <<envelope, thread, ref, hist, output, leaf, last, snap>>

ShNext ==
    \/ ShCall
    \/ ShDispatch
    \/ ShStatsBegin
    \/ ShRead
    \/ ShFinish
    \/ \E l \in Leaves, f \in Futures : ShTaskReturns(l, f) \/ ShTaskRaises(l, f)

SpecShards == ShInit /\ [][ShNext]_vars

\* C38: update_node_stats reads a shard's stats only when every index_urls
\* task submitted to that shard is over, and when collection.index_urls has
\* returned normally the aggregated N has grown by the number of urls of
\* the call, every url is a name of the collection and N is the sum of the
\* shards' N
C38_StatsAfterShardTasks ==
    /\ \A i \in DOMAIN clast.waited : clast.waited[i]
    /\ (clast.op = "returned" /\ clast.outcome = "ok") =>
          /\ node["R"].N = clast.N0 + Len(clast.args)
          /\ \A k \in DOMAIN clast.args :
                clast.args[k][1] \in DOMAIN node["R"].name_to_docid_map
          /\ node["R"].N = SumOver([i \in DOMAIN node["R"].shards |-> ShardN("R", i)],
                                   DOMAIN node["R"].shards)

\* index_urls with a url for each shard has returned normally
C38_Witness ==
    /\ clast.op = "returned" /\ clast.outcome = "ok"
    /\ Len(clast.args) = 2
    /\ \A i \in {1, 2} : ShardShare(node["R"], clast.args, i) # <<>>
    /\ node["R"].N >= 2

(***************************************************************************)
(* The tree with a client that attaches shards, chooses the scorer of the  *)
(* root and adds documents.  In this specification last holds the last     *)
(* set_query_scorer call on the root.                                      *)
(***************************************************************************)
\* no scorer chosen on the root yet
NoScorerCall == [op |-> "init", scorer |-> "tfidf"]

ScorerInit ==
    /\ node = [n \in Collections \cup Leaves |->
                 IF n = "R" THEN NewCollection(TRUE, SpreadHash)
                 ELSE IF n = "M" THEN NewCollection(FALSE, SpreadHash)
                 ELSE NewLeaf]
    /\ ref = NewLeaf
    /\ clast = CollCall("init", "R", "ok")
    /\ thread = IdleThreads
    /\ envelope = NewEnvelope
    /\ hist = NoHist
    /\ output = NoFile
    /\ leaf = NewLeaf
    /\ last = NoScorerCall
    /\ snap = NoSnap

\* set_query_scorer(scorer) on the root
ScorerSetQueryScorer ==
    /\ \E sc \in Scorers :
          /\ node' = NodeSetQueryScorer(node, "R", sc)
          /\ last' = [op |-> "set_query_scorer", scorer |-> sc]
    /\ clast' = CollCall("set_query_scorer", "R", "ok")
    /\ UNCHANGED <<ref, leaf, snap, thread, envelope, hist, output>>

ScorerNext ==
    \/ CollAddShards
    \/ ScorerSetQueryScorer
    \/ CollIndexStringBuffersCall

SpecScorer == ScorerInit /\ [][ScorerNext]_vars

\* C39: once set_query_scorer(s) has been called on the root, every leaf
\* below the root scores with s, also a leaf attached afterwards
C39_OneScorerBelowRoot ==
    last.op = "set_query_scorer" =>
       \A l \in LeavesBelow(node, "R") : node[l].query_scorer = last.scorer

(***************************************************************************)
(* ShelfSimIndex: a MapSimIndex whose seven maps are shelves on disk.  In  *)
(* this specification leaf is the open index, its maps being the stores;   *)
(* StrKeyMap keys a store by str(docid), which is one-to-one on docids, so *)
(* the stores are kept with the docid as key.  The index is closed and     *)
(* constructed again over the same files.                                  *)
(***************************************************************************)
\* ShelfSimIndex.__init__(filename, flag) over stores that hold the maps of
\* L: SimIndex.__init__ and MapSimIndex.__init__ set every attribute that
\* is not a store, then self._N = len(docid_to_name_map)
ShelfOpen(L) ==
    [NewLeaf EXCEPT
        !.name_to_docid_map = L.name_to_docid_map,
        !.docid_to_name_map = L.docid_to_name_map,
        !.term_index = L.term_index,
        !.doc_vectors = L.doc_vectors,
        !.df_map = L.df_map,
        !.doc_len_map = L.doc_len_map,
        !.N = Cardinality(DOMAIN L.docid_to_name_map)]

\* the last call, and for a construction the docids the stores held
ShelfCall(op, stored) == [op |-> op, stored |-> stored]

ShelfInit ==
    /\ leaf = ShelfOpen(NewLeaf)
    /\ last = ShelfCall("init", {})
    /\ snap = NoSnap
    /\ node = EmptyMap
    /\ ref = NewLeaf
    /\ clast = CollCall("init", "R", "ok")
    /\ thread = IdleThreads
    /\ envelope = NewEnvelope
    /\ hist = NoHist
    /\ output = NoFile

\* index_string_buffers on the open index, names not in the index
ShelfIndexStringBuffers ==
    /\ \E b \in FreshBatches(leaf) :
          /\ Cardinality(DOMAIN leaf.name_to_docid_map) + Len(b) <= MaxDocid
          /\ leaf' = IndexStringBuffers(leaf, b)
    /\ last' = ShelfCall("index_string_buffers", last.stored)
    /\ UNCHANGED <<snap, node, ref, clast, thread, envelope, hist, output>>

\* set_query_scorer on the open index
ShelfSetQueryScorer ==
    /\ \E sc \in Scorers : leaf' = LeafSetQueryScorer(leaf, sc)
    /\ last' = ShelfCall("set_query_scorer", last.stored)
    /\ UNCHANGED <<snap, node, ref, clast, thread, envelope, hist, output>>

\* close(), then ShelfSimIndex(filename, 'c') over the same files
ShelfReopen ==
    /\ leaf' = ShelfOpen(leaf)
    /\ last' = ShelfCall("reopen", DOMAIN leaf.docid_to_name_map)
    /\ UNCHANGED <<snap, node, ref, clast, thread, envelope, hist, output>>

ShelfNext ==
    \/ ShelfIndexStringBuffers
    \/ ShelfSetQueryScorer
    \/ ShelfReopen

SpecShelf == ShelfInit /\ [][ShelfNext]_vars

\* C40: an index constructed over stores that hold documents starts with N
\* the number of stored documents, and the documents indexed afterwards get
\* docids that are not in the stores: the names and docids stay in
\* bijection, N is the number of documents, every document has its vector
\* and every posting its document, once per postings list
C40_ReopenedIndexKeepsInvariants ==
    /\ last.op = "reopen" => leaf.N = Cardinality(last.stored)
    /\ leaf.N = Cardinality(DOMAIN leaf.docid_to_name_map)
    /\ \A name \in DOMAIN leaf.name_to_docid_map :
          /\ leaf.name_to_docid_map[name] \in DOMAIN leaf.docid_to_name_map
          /\ leaf.docid_to_name_map[leaf.name_to_docid_map[name]] = name
    /\ \A d \in DOMAIN leaf.docid_to_name_map :
          /\ leaf.docid_to_name_map[d] \in DOMAIN leaf.name_to_docid_map
          /\ leaf.name_to_docid_map[leaf.docid_to_name_map[d]] = d
    /\ DOMAIN leaf.doc_vectors = DOMAIN leaf.docid_to_name_map
    /\ \A t \in DOMAIN leaf.term_index :
          LET pl == leaf.term_index[t]
          IN /\ \A i, j \in DOMAIN pl : i # j => pl[i][1] # pl[j][1]
             /\ \A i \in DOMAIN pl :
                   /\ pl[i][1] \in DOMAIN leaf.doc_vectors
                   /\ t \in DOMAIN leaf.doc_vectors[pl[i][1]]
                   /\ leaf.doc_vectors[pl[i][1]][t] = pl[i][2]

====
